---- MODULE Spec2Model ----
(***************************************************************************)
(* A model of pod-compose's reconciliation controller                       *)
(* (src/pod-compose/src/controller.rs), of the podman backend's container   *)
(* listing (src/pod-compose/src/backends/podman.rs) and of the driver that  *)
(* plans and applies (src/pod-compose/src/main.rs).                         *)
(*                                                                         *)
(* Option<T> is modelled as a sequence of length 0 (None) or 1 (Some).      *)
(* A BTreeMap is a function whose DOMAIN is its key set; iteration visits   *)
(* the keys in ascending order (NameOrder, LabelKeyOrder).                  *)
(***************************************************************************)
EXTENDS Integers, Sequences, FiniteSets, TLC

VARIABLES
    composition,   \* Controller.composition.containers: Seq(ContainerSpec)
    runtime,       \* the runtime's containers: id -> [names, status, labels]
    next_id,       \* the id the runtime gives the next created container
    containers,    \* Controller.containers: the snapshot, name -> Container
    orphans,       \* the last result of find_orphans
    diff,          \* the planner's result, Seq(<<name, operation>>)
    plan,          \* the operations of diff still to apply
    calls,         \* the backend calls of the invocation so far, in order
    pc,            \* where the driver is
    run,           \* the number of the current invocation
    clean,         \* every invocation so far ended without an error
    timeout,       \* the --timeout of the invocation
    error,         \* the error that ended the invocation, "" when none did
    opt,           \* Opt: the subcommand and its flags
    image_specs,   \* Composition.pull_images and Composition.build_images
    images,        \* the names of the images the runtime holds
    requests,      \* the backend calls of the invocation that are not container
                   \* calls of container_apply (list_containers and the image
                   \* calls), in order
    policy,        \* the PullPolicy pull_images is called with
    file_services, \* file.services of the compose file, service name -> Service;
                   \* empty where a specification starts from the composition
    inserts        \* for each spec whose labels Map::insert calls filled: the
                   \* entries in the order of the calls (inserted) and the
                   \* entries the BTreeMap holds, in its order (stored)

vars == <<composition, runtime, next_id, containers, orphans, diff, plan, calls, pc, run,
          clean, timeout, error, opt, image_specs, images, requests, policy,
          file_services, inserts>>

----------------------------------------------------------------------------
(* Bounds of the model. *)

MaxSpecs == 2        \* ContainerSpecs in a composition
MaxContainers == 2   \* containers the runtime holds at the start
MaxObserved == 2     \* containers the snapshot of a planner holds
MaxRuns == 2         \* invocations of the driver in a behaviour
MaxPresent == 1      \* containers the runtime holds when one operation is applied
MaxImages == 2       \* image specs of one kind in a composition
MaxLabels == 2       \* label entries inserted into the labels of a spec
MaxReplicas == 2     \* replicas a service of the compose file asks for

----------------------------------------------------------------------------
(* controller.rs:15-17 *)

LABEL_PROJECT == "io.podman.compose.project"
LABEL_SERVICE == "io.podman.compose.service"
LABEL_HASH == "io.podman.compose.hash"

(* The project of the run and the names its compose files can declare:     *)
(* {project}_{service}_{index}.                                             *)
ProjectName == "p"
ServiceNames == {"web", "db"}
ContainerNames == {"p_db_0", "p_web_0", "p_web_1"}
ImageName == "nginx"

(* Ascending order of the names and of the label keys (BTreeMap order). *)
NameOrder == <<"p_db_0", "p_web_0", "p_web_1">>
LabelKeyOrder == <<"env", LABEL_HASH, LABEL_PROJECT, LABEL_SERVICE, "tier">>

ServiceOf(name) == IF name = "p_db_0" THEN "db" ELSE "web"

(* Map::get *)
Get(map, key) == IF key \in DOMAIN map THEN <<map[key]>> ELSE <<>>

(* Map::insert *)
Insert(map, key, value) ==
    [k \in DOMAIN map \cup {key} |-> IF k = key THEN value ELSE map[k]]

EmptyMap == [k \in {} |-> ""]

(* The keys of a map keyed by container name, ascending. *)
SortedKeys(map) == SelectSeq(NameOrder, LAMBDA n : n \in DOMAIN map)

----------------------------------------------------------------------------
(* hasher.rs and the derived Hash of ContainerSpec: the bytes fed to        *)
(* blake3.  A str writes its bytes and the terminator 0xff (written "~"     *)
(* here); a map writes its length and then its entries, key and value, in   *)
(* key order.  blake3 is taken to be injective on these inputs, so the hex  *)
(* digest is modelled by the input it digests.                              *)

HashStr(s) == s \o "~"

RECURSIVE HashEntries(_, _)
HashEntries(map, i) ==
    IF i > Len(LabelKeyOrder) THEN ""
    ELSE LET key == LabelKeyOrder[i]
         IN (IF key \in DOMAIN map THEN HashStr(key) \o HashStr(map[key]) ELSE "")
            \o HashEntries(map, i + 1)

HashMap(map) == ToString(Cardinality(DOMAIN map)) \o ":" \o HashEntries(map, 1)

(* #[derive(Hash)] struct ContainerSpec: the fields in declaration order. *)
HashSpec(spec) ==
    HashStr(spec.name) \o HashStr(spec.service_name)
        \o HashStr(spec.image_name) \o HashMap(spec.labels)

(* hasher.input(&spec); hasher.finalize().to_hex() *)
SpecHashHex(spec) == "blake3(" \o HashSpec(spec) \o ")"

(* The same bytes taken from what a BTreeMap holds.  The entries of a      *)
(* Map<String, String> are kept as a sequence of <<key, value>> in the      *)
(* order the map stores and iterates them.                                  *)

(* the place of a key in the ascending order of the keys *)
KeyRank(key) == CHOOSE i \in DOMAIN LabelKeyOrder : LabelKeyOrder[i] = key

(* an insert that puts the entry behind those the map holds *)
BTreeInsertLast(entries, key, value) ==
    SelectSeq(entries, LAMBDA e : e[1] # key) \o << <<key, value>> >>

(* BTreeMap::insert: the entry takes the place its key has in the order of *)
(* the keys, and the value of a key the map holds is replaced              *)
BTreeInsert(entries, key, value) ==
    SelectSeq(entries, LAMBDA e : KeyRank(e[1]) < KeyRank(key))
        \o << <<key, value>> >>
        \o SelectSeq(entries, LAMBDA e : KeyRank(e[1]) > KeyRank(key))

(* the entries a map holds after the inserts, made one after the other *)
RECURSIVE Stored(_)
Stored(entries) ==
    IF entries = <<>> THEN <<>>
    ELSE LET last == entries[Len(entries)]
         IN BTreeInsert(Stored(SubSeq(entries, 1, Len(entries) - 1)), last[1], last[2])

(* impl Hash for BTreeMap: the length, then each entry as the map iterates *)
(* them, key and value                                                      *)
RECURSIVE HashStoredFrom(_, _)
HashStoredFrom(entries, i) ==
    IF i > Len(entries) THEN ""
    ELSE HashStr(entries[i][1]) \o HashStr(entries[i][2]) \o HashStoredFrom(entries, i + 1)

HashStored(entries) == ToString(Len(entries)) \o ":" \o HashStoredFrom(entries, 1)

----------------------------------------------------------------------------
(* backends/podman.rs: list_containers *)

(* ContainerStatusOf with an unrecognised status taken for Exited *)
ContainerStatusLenient(status) ==
    CASE status = "configured" -> "Configured"
      [] status = "running" -> "Running"
      [] OTHER -> "Exited"

ContainerStatusOf(status) ==
    CASE status = "configured" -> "Configured"
      [] status = "running" -> "Running"
      [] status = "exited" -> "Exited"
      [] OTHER -> "Unknown"

(* a container passes when some requested label has the requested value *)
MatchesAnyLabel(container_labels, labels) ==
    \E i \in DOMAIN labels :
        Get(container_labels, labels[i][1]) = <<labels[i][2]>>

(* a container passes when every requested label has the requested value *)
MatchesLabels(container_labels, labels) ==
    \A i \in DOMAIN labels :
        Get(container_labels, labels[i][1]) = <<labels[i][2]>>

list_containers(rt, labels) ==
    LET kept == {id \in DOMAIN rt : MatchesLabels(rt[id].labels, labels)}
        names == {rt[id].names : id \in kept}
        IdOf(name) == CHOOSE id \in kept : rt[id].names = name
    IN [name \in names |->
           [id |-> IdOf(name),
            name |-> name,
            status |-> ContainerStatusOf(rt[IdOf(name)].status),
            labels |-> rt[IdOf(name)].labels]]

----------------------------------------------------------------------------
(* controller.rs: the planners *)

(* the declared services taken from the compose file, not from the specs *)
DeclaredServicesOfFile(comp) == DOMAIN file_services

(* the set `services` of find_orphans and start_containers_diff *)
DeclaredServices(comp) == {comp[i].service_name : i \in DOMAIN comp}

(* find_orphans with a container that has no service label kept *)
find_orphans_labelled(comp, snapshot) ==
    LET services == {comp[i].service_name : i \in DOMAIN comp}
        IsOrphan(container_name) ==
            LET service == Get(snapshot[container_name].labels, LABEL_SERVICE)
            IN service # <<>> /\ service[1] \notin services
    IN SelectSeq(SortedKeys(snapshot), IsOrphan)

(* find_orphans by name: every container whose name is not declared *)
find_orphans_by_name(comp, snapshot) ==
    SelectSeq(SortedKeys(snapshot),
              LAMBDA n : \A i \in DOMAIN comp : comp[i].name # n)

(* find_orphans: the snapshot's names, in map order, whose service label    *)
(* is missing or names no declared service.                                 *)
find_orphans(comp, snapshot) ==
    LET services == DeclaredServices(comp)
        IsOrphan(container_name) ==
            LET service == Get(snapshot[container_name].labels, LABEL_SERVICE)
            IN ~(service # <<>> /\ service[1] \in services)
    IN SelectSeq(SortedKeys(snapshot), IsOrphan)

(* SpecOperation with the status looked at before the hash *)
SpecOperationStatusFirst(spec, snapshot) ==
    IF spec.name \notin DOMAIN snapshot
    THEN << <<spec.name, "Create">> >>
    ELSE LET container == snapshot[spec.name]
         IN IF container.status = "Running" THEN <<>>
            ELSE IF Get(container.labels, LABEL_HASH) = <<SpecHashHex(spec)>>
                    /\ container.status # "Unknown"
            THEN << <<spec.name, "Start">> >>
            ELSE << <<spec.name, "Recreate">> >>

(* SpecOperation with a Running container started again *)
SpecOperationRestarts(spec, snapshot) ==
    IF spec.name \notin DOMAIN snapshot
    THEN << <<spec.name, "Create">> >>
    ELSE LET container == snapshot[spec.name]
         IN IF Get(container.labels, LABEL_HASH) = <<SpecHashHex(spec)>>
               /\ container.status # "Unknown"
            THEN << <<spec.name, "Start">> >>
            ELSE << <<spec.name, "Recreate">> >>

(* the closure of the first filter_map of start_containers_diff: the        *)
(* operation of one declared spec, None as <<>>.                            *)
SpecOperation(spec, snapshot) ==
    LET spec_hash == SpecHashHex(spec)
    IN IF spec.name \notin DOMAIN snapshot
       THEN << <<spec.name, "Create">> >>
       ELSE LET container == snapshot[spec.name]
                container_hash == Get(container.labels, LABEL_HASH)
            IN IF container_hash # <<>> /\ container_hash[1] = spec_hash
               THEN CASE container.status = "Configured" -> << <<spec.name, "Start">> >>
                      [] container.status = "Running" -> <<>>
                      [] container.status = "Exited" -> << <<spec.name, "Start">> >>
                      [] container.status = "Unknown" -> << <<spec.name, "Recreate">> >>
               ELSE << <<spec.name, "Recreate">> >>

(* Stream A: composition.containers.iter().filter_map(..) *)
RECURSIVE DeclaredDiff(_, _, _)
DeclaredDiff(comp, snapshot, i) ==
    IF i > Len(comp) THEN <<>>
    ELSE SpecOperation(comp[i], snapshot) \o DeclaredDiff(comp, snapshot, i + 1)

(* Stream B without the look at the service label: orphans go too *)
ScaledDownAnyService(comp, snapshot) ==
    LET removed == SelectSeq(SortedKeys(snapshot),
                             LAMBDA n : \A i \in DOMAIN comp : comp[i].name # n)
    IN [i \in DOMAIN removed |-> <<removed[i], "Remove">>]

(* Stream B without container_should_exist: declared containers go too *)
ScaledDownDeclaredToo(comp, snapshot) ==
    LET services == {comp[i].service_name : i \in DOMAIN comp}
        removed == SelectSeq(SortedKeys(snapshot),
                             LAMBDA n : LET service == Get(snapshot[n].labels, LABEL_SERVICE)
                                        IN service # <<>> /\ service[1] \in services)
    IN [i \in DOMAIN removed |-> <<removed[i], "Remove">>]

(* Stream B: scaled_down_containers *)
ScaledDownContainers(comp, snapshot) ==
    LET services == DeclaredServices(comp)
        IsScaledDown(container_name) ==
            LET container_should_exist ==
                    \E i \in DOMAIN comp : comp[i].name = container_name
                service == Get(snapshot[container_name].labels, LABEL_SERVICE)
            IN service # <<>> /\ service[1] \in services /\ ~container_should_exist
        removed == SelectSeq(SortedKeys(snapshot), IsScaledDown)
    IN [i \in DOMAIN removed |-> <<removed[i], "Remove">>]

(* start_containers_diff with the two streams chained the other way *)
start_containers_diff_removes_first(comp, snapshot) ==
    ScaledDownContainers(comp, snapshot) \o DeclaredDiff(comp, snapshot, 1)

(* diff.chain(scaled_down_containers).collect() *)
start_containers_diff(comp, snapshot) ==
    DeclaredDiff(comp, snapshot, 1) \o ScaledDownContainers(comp, snapshot)

(* stop_containers_diff without the guard on the status *)
stop_containers_diff_any_status(comp, snapshot) ==
    LET stopped == SelectSeq(comp, LAMBDA spec : spec.name \in DOMAIN snapshot)
    IN [i \in DOMAIN stopped |-> <<stopped[i].name, "Stop">>]

(* stop_containers_diff: Stop for each declared spec whose container is in *)
(* the snapshot and Running, in the order of the composition.               *)
stop_containers_diff(comp, snapshot) ==
    LET IsRunning(spec) ==
            LET container == Get(snapshot, spec.name)
            IN container # <<>> /\ container[1].status = "Running"
        stopped == SelectSeq(comp, IsRunning)
    IN [i \in DOMAIN stopped |-> <<stopped[i].name, "Stop">>]

(* remove_containers_diff over the snapshot instead of the composition *)
remove_containers_diff_observed(comp, snapshot) ==
    LET removed == SortedKeys(snapshot)
    IN [i \in DOMAIN removed |-> <<removed[i], "Remove">>]

(* remove_containers_diff that removes the containers of the declared    *)
(* services, whatever their names                                           *)
remove_containers_diff_of_services(comp, snapshot) ==
    LET removed == SelectSeq(SortedKeys(snapshot),
                             LAMBDA n : LET service == Get(snapshot[n].labels, LABEL_SERVICE)
                                        IN service # <<>>
                                           /\ service[1] \in DeclaredServices(comp))
    IN [i \in DOMAIN removed |-> <<removed[i], "Remove">>]

(* remove_containers_diff without the look at the snapshot *)
remove_containers_diff_unobserved(comp, snapshot) ==
    [i \in DOMAIN comp |-> <<comp[i].name, "Remove">>]

(* remove_containers_diff: Remove for each declared spec whose container   *)
(* is in the snapshot, in the order of the composition.                    *)
remove_containers_diff(comp, snapshot) ==
    LET IsPresent(spec) == Get(snapshot, spec.name) # <<>>
        removed == SelectSeq(comp, IsPresent)
    IN [i \in DOMAIN removed |-> <<removed[i].name, "Remove">>]

----------------------------------------------------------------------------
(* backends/podman.rs: the container calls and what the runtime does with   *)
(* them.  A call returns <<ok, runtime, next_id, id>>; a refused call       *)
(* leaves the runtime as it was.                                            *)

(* create_container: a new container of the spec's name and labels, not    *)
(* yet started; the runtime refuses a name that is in use.                  *)
create_container(rt, nid, spec) ==
    IF \E id \in DOMAIN rt : rt[id].names = spec.name
    THEN <<FALSE, rt, nid, 0>>
    ELSE <<TRUE,
           [id \in DOMAIN rt \cup {nid} |->
               IF id = nid
               THEN [names |-> spec.name, status |-> "configured", labels |-> spec.labels]
               ELSE rt[id]],
           nid + 1, nid>>

(* start_container that answers without starting *)
start_container_unstarted(rt, nid, name) ==
    IF name \notin DOMAIN rt
    THEN <<FALSE, rt, nid, 0>>
    ELSE <<TRUE, rt, nid, name>>

(* start_container *)
start_container(rt, nid, name) ==
    IF name \notin DOMAIN rt
    THEN <<FALSE, rt, nid, 0>>
    ELSE <<TRUE, [rt EXCEPT ![name].status = "running"], nid, name>>

(* stop_container that leaves the container as it was *)
stop_container_unstopped(rt, nid, name, time) ==
    IF name \notin DOMAIN rt
    THEN <<FALSE, rt, nid, 0>>
    ELSE <<TRUE, rt, nid, name>>

(* stop_container *)
stop_container(rt, nid, name, time) ==
    IF name \notin DOMAIN rt
    THEN <<FALSE, rt, nid, 0>>
    ELSE <<TRUE, [rt EXCEPT ![name].status = "exited"], nid, name>>

(* remove_container that answers Ok and leaves the container *)
remove_container_kept(rt, nid, name, remove_volumes) ==
    IF name \notin DOMAIN rt \/ rt[name].status \in {"running", "paused"}
    THEN <<FALSE, rt, nid, 0>>
    ELSE <<TRUE, rt, nid, name>>

(* remove_container: force is false in the request, so the runtime refuses *)
(* to remove a container that is running or paused.                         *)
remove_container(rt, nid, name, remove_volumes) ==
    IF name \notin DOMAIN rt \/ rt[name].status \in {"running", "paused"}
    THEN <<FALSE, rt, nid, 0>>
    ELSE <<TRUE, [id \in DOMAIN rt \ {name} |-> rt[id]], nid, name>>

----------------------------------------------------------------------------
(* controller.rs: container_apply.  The backend calls an operation makes,   *)
(* in order; ids are positive and CreatedId stands for the id that          *)
(* create_container returned.                                               *)

CreatedId == 0

(* main.rs: default_value of --timeout *)
TimeoutDefault == 5

(* container_create with the hash taken after the inserts *)
LabelledSpecHashedLast(spec) ==
    LET labelled == [spec EXCEPT !.labels =
                        Insert(Insert(spec.labels, LABEL_PROJECT, ProjectName),
                               LABEL_SERVICE, spec.service_name)]
    IN [labelled EXCEPT !.labels = Insert(labelled.labels, LABEL_HASH, SpecHashHex(labelled))]

(* container_create with the hash taken after the project label went in *)
LabelledSpecHashedMidway(spec) ==
    LET projected == [spec EXCEPT !.labels = Insert(spec.labels, LABEL_PROJECT, ProjectName)]
        hash == SpecHashHex(projected)
    IN [spec EXCEPT !.labels =
           Insert(Insert(projected.labels, LABEL_SERVICE, spec.service_name),
                  LABEL_HASH, hash)]

(* container_create: the spec with the three system labels inserted, the   *)
(* hash taken before the inserts.                                           *)
LabelledSpec(spec) ==
    LET hash == SpecHashHex(spec)
    IN [spec EXCEPT !.labels =
           Insert(Insert(Insert(spec.labels, LABEL_PROJECT, ProjectName),
                         LABEL_SERVICE, spec.service_name),
                  LABEL_HASH, hash)]

(* container_spec without the comparison of the names *)
container_spec_first(comp, name) ==
    IF comp = <<>> THEN <<>> ELSE <<comp[1]>>

(* the closure container_spec: the first declared spec of that name *)
container_spec(comp, name) ==
    LET found == {i \in DOMAIN comp : comp[i].name = name}
    IN IF found = {} THEN <<>>
       ELSE <<comp[CHOOSE i \in found : \A j \in found : i <= j]>>

(* Create with the spec passed on as it was declared *)
CreateCallsUnlabelled(spec) ==
    << [call |-> "create_container", spec |-> spec],
       [call |-> "start_container", name |-> CreatedId] >>

(* Create: container_create, then start_container of the id it returned *)
CreateCalls(spec) ==
    << [call |-> "create_container", spec |-> LabelledSpec(spec)],
       [call |-> "start_container", name |-> CreatedId] >>

(* the stop before a remove, for every status but Exited *)
StopIfNotExited(container, time) ==
    IF container.status # "Exited"
    THEN << [call |-> "stop_container", name |-> container.id, timeout |-> time] >>
    ELSE <<>>

(* the stop before a remove left out *)
StopNever(container, time) == <<>>

(* if container.status == ContainerStatus::Running { stop_container } *)
StopIfRunning(container, time) ==
    IF container.status = "Running"
    THEN << [call |-> "stop_container", name |-> container.id, timeout |-> time] >>
    ELSE <<>>

(* <<error, calls>>: the Planning error of the operation ("" when there is *)
(* none) and the backend calls it makes when none of them fails.            *)
OperationCalls(comp, snapshot, name, operation, time) ==
    LET spec == container_spec(comp, name)
        container == Get(snapshot, name)
        unknown == <<"unknown container name", <<>> >>
        missing == <<"could not find container", <<>> >>
    IN CASE operation = "Create" ->
               IF spec = <<>> THEN unknown ELSE <<"", CreateCalls(spec[1])>>
         [] operation = "Recreate" ->
               IF spec = <<>> THEN unknown
               ELSE IF container = <<>> THEN missing
               ELSE <<"", StopIfRunning(container[1], time)
                          \o << [call |-> "remove_container", name |-> container[1].id,
                                 remove_volumes |-> FALSE] >>
                          \o CreateCalls(spec[1])>>
         [] operation = "Start" ->
               IF container = <<>> THEN missing
               ELSE <<"", << [call |-> "start_container", name |-> container[1].id] >> >>
         [] operation = "Stop" ->
               IF container = <<>> THEN missing
               ELSE <<"", << [call |-> "stop_container", name |-> container[1].id,
                              timeout |-> time] >> >>
         [] operation = "Remove" ->
               IF container = <<>> THEN missing
               ELSE <<"", StopIfRunning(container[1], time)
                          \o << [call |-> "remove_container", name |-> container[1].id,
                                 remove_volumes |-> FALSE] >> >>

(* one backend call against the runtime; created is the id the last        *)
(* create_container returned.                                               *)
BackendCall(rt, nid, created, c) ==
    LET target == IF c.call = "create_container" THEN CreatedId
                  ELSE IF c.name = CreatedId THEN created ELSE c.name
    IN CASE c.call = "create_container" -> create_container(rt, nid, c.spec)
         [] c.call = "start_container" -> start_container(rt, nid, target)
         [] c.call = "stop_container" -> stop_container(rt, nid, target, c.timeout)
         [] c.call = "remove_container" -> remove_container(rt, nid, target, c.remove_volumes)

(* IssueCalls without the ?: the calls after a failed one are sent too *)
RECURSIVE IssueCallsKeepsGoing(_, _, _, _, _, _)
IssueCallsKeepsGoing(cs, i, rt, nid, created, fault) ==
    IF i > Len(cs)
    THEN [ok |-> fault = 0, rt |-> rt, nid |-> nid, issued |-> i - 1, created |-> created]
    ELSE LET r == BackendCall(rt, nid, created, cs[i])
         IN IF fault = i \/ ~r[1]
            THEN IssueCallsKeepsGoing(cs, i + 1, rt, nid, created, fault)
            ELSE IssueCallsKeepsGoing(cs, i + 1, r[2], r[3],
                                      IF cs[i].call = "create_container" THEN r[4]
                                      ELSE created,
                                      fault)

(* The calls of an operation issued one after the other, stopping at the   *)
(* first that fails (the ? of container_apply): call number `fault` fails   *)
(* in transit, any other fails when the runtime refuses it.                 *)
(* [ok, rt, nid, issued, created]: issued is the number of calls that were  *)
(* sent, created the id create_container returned.                          *)
RECURSIVE IssueCalls(_, _, _, _, _, _)
IssueCalls(cs, i, rt, nid, created, fault) ==
    IF i > Len(cs)
    THEN [ok |-> TRUE, rt |-> rt, nid |-> nid, issued |-> i - 1, created |-> created]
    ELSE LET r == BackendCall(rt, nid, created, cs[i])
         IN IF fault = i \/ ~r[1]
            THEN [ok |-> FALSE, rt |-> rt, nid |-> nid, issued |-> i, created |-> created]
            ELSE IssueCalls(cs, i + 1, r[2], r[3],
                            IF cs[i].call = "create_container" THEN r[4] ELSE created,
                            fault)

(* the call as it was sent, were remove_container told to remove the      *)
(* volumes                                                                  *)
SentCallRemovingVolumes(c, created) ==
    IF c.call = "start_container" /\ c.name = CreatedId
    THEN [c EXCEPT !.name = created]
    ELSE IF c.call = "remove_container" THEN [c EXCEPT !.remove_volumes = TRUE] ELSE c

(* the call as it was sent: container_id.0 is the id that was returned *)
SentCall(c, created) ==
    IF c.call = "start_container" /\ c.name = CreatedId
    THEN [c EXCEPT !.name = created]
    ELSE c

(* container_apply that stops with the default timeout *)
container_apply_default_timeout(comp, snapshot, rt, nid, name, operation, time, fault) ==
    LET oc == OperationCalls(comp, snapshot, name, operation, TimeoutDefault)
        r == IssueCalls(oc[2], 1, rt, nid, 0, fault)
    IN IF oc[1] # ""
       THEN [error |-> oc[1], rt |-> rt, nid |-> nid, calls |-> <<>>]
       ELSE [error |-> IF r.ok THEN "" ELSE "backend error",
             rt |-> r.rt, nid |-> r.nid,
             calls |-> [k \in 1..r.issued |-> SentCall(oc[2][k], r.created)]]

(* container_apply(name, operation, timeout): the error it returns ("" for *)
(* Ok), the runtime it leaves and the calls it sent, the failed one last.   *)
container_apply(comp, snapshot, rt, nid, name, operation, time, fault) ==
    LET oc == OperationCalls(comp, snapshot, name, operation, time)
        r == IssueCalls(oc[2], 1, rt, nid, 0, fault)
    IN IF oc[1] # ""
       THEN [error |-> oc[1], rt |-> rt, nid |-> nid, calls |-> <<>>]
       ELSE [error |-> IF r.ok THEN "" ELSE "backend error",
             rt |-> r.rt, nid |-> r.nid,
             calls |-> [k \in 1..r.issued |-> SentCall(oc[2][k], r.created)]]

----------------------------------------------------------------------------
(* The images: services.rs:18-37 as backends/podman.rs implements it, and  *)
(* the loops of the controller over the image specs.  The store is the set  *)
(* of the image names the runtime holds.                                    *)

PullPolicies == {"IfNotPresent", "Always"}

(* podman.rs: get_image; ImageNotFound is Ok(None) *)
get_image(store, name) == IF name \in store THEN <<name>> ELSE <<>>

(* podman.rs: pull_image *)
pull_image(store, name) == store \cup {name}

(* podman.rs: build_image; the image is stored under spec.name *)
build_image(store, spec) == store \cup {spec.name}

(* pull_images that asks the policy alone, never what get_image returned *)
ShouldPullAlwaysOnly(pull_policy, image) == pull_policy = "Always"

(* controller.rs:56-62: the match on (pull_policy, image) *)
ShouldPull(pull_policy, image) ==
    \/ pull_policy = "IfNotPresent" /\ image = <<>>
    \/ pull_policy = "Always"

(* controller.rs:53-66: pull_images.  fault is the number of the backend   *)
(* call that fails, 0 when none does; the failing call is the last of the  *)
(* calls and has no effect.                                                 *)
RECURSIVE PullFrom(_, _, _, _, _, _)
PullFrom(specs, i, store, pull_policy, fault, issued) ==
    IF i > Len(specs) THEN [error |-> "", images |-> store, calls |-> issued]
    ELSE LET name == specs[i].name
             got == Append(issued, [call |-> "get_image", name |-> name])
         IN IF Len(got) = fault
            THEN [error |-> "backend error", images |-> store, calls |-> got]
            ELSE IF ShouldPull(pull_policy, get_image(store, name))
                 THEN LET pulled == Append(got, [call |-> "pull_image", name |-> name])
                      IN IF Len(pulled) = fault
                         THEN [error |-> "backend error", images |-> store,
                               calls |-> pulled]
                         ELSE PullFrom(specs, i + 1, pull_image(store, name),
                                       pull_policy, fault, pulled)
                 ELSE PullFrom(specs, i + 1, store, pull_policy, fault, got)

pull_images(specs, store, pull_policy, fault) ==
    PullFrom(specs, 1, store, pull_policy, fault, <<>>)

(* the number of backend calls pull_images makes when none fails *)
PullCallCount(specs, store, pull_policy) ==
    Len(pull_images(specs, store, pull_policy, 0).calls)

(* build_images that builds with Always what it builds with IfChanged *)
BuiltChangedOnly(specs, build_policy, changed) == changed \cap DOMAIN specs

(* The specs build_images builds: all of them when the policy is Always;   *)
(* with IfChanged, whose meaning the specification leaves open, any of      *)
(* them: the specs in changed, which may be all.                            *)
Built(specs, build_policy, changed) ==
    IF build_policy = "Always" THEN DOMAIN specs ELSE changed \cap DOMAIN specs

(* build_images(build_policy, pull_policy): build_image for the specs to   *)
(* build, in the order of their declaration, stopping at the first error.   *)
RECURSIVE BuildFrom(_, _, _, _, _, _, _)
BuildFrom(specs, i, store, built, pull_policy, fault, issued) ==
    IF i > Len(specs) THEN [error |-> "", images |-> store, calls |-> issued]
    ELSE IF i \notin built
         THEN BuildFrom(specs, i + 1, store, built, pull_policy, fault, issued)
         ELSE LET sent == Append(issued, [call |-> "build_image", name |-> specs[i].name,
                                          pull_policy |-> pull_policy])
              IN IF Len(sent) = fault
                 THEN [error |-> "backend error", images |-> store, calls |-> sent]
                 ELSE BuildFrom(specs, i + 1, build_image(store, specs[i]), built,
                                pull_policy, fault, sent)

build_images(specs, store, build_policy, changed, pull_policy, fault) ==
    BuildFrom(specs, 1, store, Built(specs, build_policy, changed), pull_policy,
              fault, <<>>)

----------------------------------------------------------------------------
(* The compositions and the runtimes a behaviour starts from. *)

(* frontends/docker_compose.rs:150-158: the spec the compose file declares *)
(* for a container name; its labels are empty.                              *)
DeclaredSpec(name) ==
    [name |-> name, service_name |-> ServiceOf(name), image_name |-> ImageName,
     labels |-> EmptyMap]

(* The spec an earlier, since edited, declaration of the name had. *)
StaleSpec(name) == [DeclaredSpec(name) EXCEPT !.labels = [k \in {"env"} |-> "prod"]]

ContainerSpecs == {DeclaredSpec(n) : n \in ContainerNames}

(* sequences of at most MaxSpecs specs with pairwise distinct names *)
Compositions ==
    UNION {{c \in [1..n -> ContainerSpecs] :
                \A i, j \in 1..n : i # j => c[i].name # c[j].name} : n \in 0..MaxSpecs}

StatusStrings == {"configured", "running", "exited", "paused"}

With(map, key, value) == IF value = <<>> THEN map ELSE Insert(map, key, value[1])

(* The labels a container of the project can carry: the service label and  *)
(* the hash label each absent or present, the hash that of the declared or *)
(* of the stale spec of the container's name.                               *)
ContainerLabels(name) ==
    LET base == [k \in {LABEL_PROJECT} |-> ProjectName]
        services == {<<>>} \cup {<<s>> : s \in ServiceNames}
        hashes == {<<>>, <<SpecHashHex(DeclaredSpec(name))>>, <<SpecHashHex(StaleSpec(name))>>}
    IN {With(With(base, LABEL_SERVICE, s), LABEL_HASH, h) : s \in services, h \in hashes}

(* The labels of a container that container_create made from the declared *)
(* or the stale spec of its name, and those of a container that carries    *)
(* the project label only.                                                  *)
CreatedLabels(name) ==
    {LabelledSpec(DeclaredSpec(name)).labels, LabelledSpec(StaleSpec(name)).labels,
     [k \in {LABEL_PROJECT} |-> ProjectName]}

InitialId(name) == CHOOSE i \in DOMAIN NameOrder : NameOrder[i] = name

(* the labels the containers of a starting runtime are drawn from *)
LabelsOf(any, name) == IF any THEN ContainerLabels(name) ELSE CreatedLabels(name)

(* The runtimes of at most max containers of distinct names, the container *)
(* of a name under the id InitialId gives it.                               *)
RuntimesOf(any, max) ==
    UNION {{rt \in [{InitialId(n) : n \in S} ->
                      UNION {{[names |-> n, status |-> st, labels |-> l] :
                                 st \in StatusStrings, l \in LabelsOf(any, n)} : n \in S}] :
                \A id \in DOMAIN rt : rt[id].names = NameOrder[id]}
           : S \in {T \in SUBSET ContainerNames : Cardinality(T) <= max}}

(* Opt::Up with none of its flags given *)
UpDefaults ==
    [cmd |-> "up", remove_orphans |-> FALSE, volumes |-> FALSE, build |-> FALSE,
     pull |-> FALSE]

(* a composition taken without its images *)
NoImageSpecs == [pull_images |-> <<>>, build_images |-> <<>>]

InitOf(rts, timeouts) ==
    /\ composition \in Compositions
    /\ runtime \in rts
    /\ next_id = Len(NameOrder) + 1
    /\ containers = EmptyMap
    /\ orphans = <<>>
    /\ diff = <<>>
    /\ plan = <<>>
    /\ calls = <<>>
    /\ pc = "start"
    /\ run = 1
    /\ clean = TRUE
    /\ timeout \in timeouts
    /\ opt = UpDefaults
    /\ image_specs = NoImageSpecs
    /\ images = {}
    /\ requests = <<>>
    /\ policy = "IfNotPresent"
    /\ file_services = EmptyMap
    /\ inserts = <<>>
    /\ error = ""

(* the driver starts with containers that earlier runs made *)
Init == InitOf(RuntimesOf(FALSE, MaxContainers), {TimeoutDefault})

(* the planners are given containers with any labels *)
InitPlan == InitOf(RuntimesOf(TRUE, MaxObserved), {TimeoutDefault})

----------------------------------------------------------------------------
(* The driver: main.rs, the subcommand up. *)

(* Controller::init that lists the containers without a filter *)
ControllerInitUnfiltered ==
    /\ pc = "start"
    /\ containers' = list_containers(runtime, <<>>)
    /\ requests' = Append(requests, [call |-> "list_containers", labels |-> <<>>])
    /\ pc' = "ready"
    /\ UNCHANGED <<composition, runtime, next_id, orphans, diff, plan, calls, run, clean,
                   timeout, error, opt, image_specs, policy, images, file_services, inserts>>

(* Controller::init *)
ControllerInit ==
    /\ pc = "start"
    /\ containers' = list_containers(runtime, << <<LABEL_PROJECT, ProjectName>> >>)
    /\ requests' = Append(requests, [call |-> "list_containers",
                                     labels |-> << <<LABEL_PROJECT, ProjectName>> >>])
    /\ pc' = "ready"
    /\ UNCHANGED <<composition, runtime, next_id, orphans, diff, plan, calls, run, clean,
                   timeout, error, opt, image_specs, policy, images, file_services, inserts>>

(* check_orphans that converts the orphans into Stop operations *)
CheckOrphansStopping ==
    /\ pc = "ready"
    /\ opt.cmd # "build"
    /\ orphans' = find_orphans(composition, containers)
    /\ IF orphans' # <<>> /\ opt.remove_orphans
       THEN /\ plan' = [i \in DOMAIN orphans' |-> <<orphans'[i], "Stop">>]
            /\ pc' = "orphans"
       ELSE /\ pc' = "checked"
            /\ UNCHANGED plan
    /\ UNCHANGED <<composition, runtime, next_id, containers, diff, calls, run,
                   clean, timeout, error, opt, image_specs, policy, images, requests,
                   file_services, inserts>>

(* check_orphans: find_orphans, then with --remove-orphans a Remove for    *)
(* each orphan handed to container_apply, and without it a message          *)
CheckOrphans ==
    /\ pc = "ready"
    /\ opt.cmd # "build"
    /\ orphans' = find_orphans(composition, containers)
    /\ IF orphans' # <<>> /\ opt.remove_orphans
       THEN /\ plan' = [i \in DOMAIN orphans' |-> <<orphans'[i], "Remove">>]
            /\ pc' = "orphans"
       ELSE /\ pc' = "checked"
            /\ UNCHANGED plan
    /\ UNCHANGED <<composition, runtime, next_id, containers, diff, calls, run,
                   clean, timeout, error, opt, image_specs, policy, images, requests,
                   file_services, inserts>>

(* let diff = controller.start_containers_diff()? *)
StartContainersDiff ==
    /\ pc = "checked"
    /\ diff' = start_containers_diff(composition, containers)
    /\ plan' = diff'
    /\ pc' = "planned"
    /\ UNCHANGED <<composition, runtime, next_id, containers, orphans, calls, run, clean,
                   timeout, error, opt, image_specs, policy, images, requests,
                   file_services, inserts>>

(* container_apply that lists the containers again after the operation *)
ContainerApplyRefreshing ==
    /\ pc \in {"planned", "orphans"}
    /\ plan # <<>>
    /\ \E fault \in 0..Len(OperationCalls(composition, containers, plan[1][1],
                                          plan[1][2], timeout)[2]) :
          LET r == container_apply(composition, containers, runtime, next_id,
                                   plan[1][1], plan[1][2], timeout, fault)
          IN /\ runtime' = r.rt
             /\ next_id' = r.nid
             /\ calls' = calls \o r.calls
             /\ error' = r.error
             /\ containers' = list_containers(r.rt, << <<LABEL_PROJECT, ProjectName>> >>)
             /\ IF r.error = ""
                THEN /\ plan' = Tail(plan)
                     /\ UNCHANGED <<pc, clean>>
                ELSE /\ pc' = "failed"
                     /\ clean' = FALSE
                     /\ UNCHANGED plan
    /\ UNCHANGED <<composition, orphans, diff, run, timeout, opt, image_specs, policy, images,
                   requests, file_services, inserts>>

(* one turn of the loop of container_apply (main.rs:251-261): the next     *)
(* operation is applied, and an error ends the run.  fault is the number of *)
(* the backend call that fails in transit, 0 when none does.                *)
ContainerApply ==
    /\ pc \in {"planned", "orphans"}
    /\ plan # <<>>
    /\ \E fault \in 0..Len(OperationCalls(composition, containers, plan[1][1],
                                          plan[1][2], timeout)[2]) :
          LET r == container_apply(composition, containers, runtime, next_id,
                                   plan[1][1], plan[1][2], timeout, fault)
          IN /\ runtime' = r.rt
             /\ next_id' = r.nid
             /\ calls' = calls \o r.calls
             /\ error' = r.error
             /\ IF r.error = ""
                THEN /\ plan' = Tail(plan)
                     /\ UNCHANGED <<pc, clean>>
                ELSE /\ pc' = "failed"
                     /\ clean' = FALSE
                     /\ UNCHANGED plan
    /\ UNCHANGED <<composition, containers, orphans, diff, run, timeout, opt,
                   image_specs, policy, images, requests, file_services, inserts>>

(* the loop is over: Ok(()), to check_orphans or to the end of main *)
Finish ==
    /\ pc \in {"planned", "orphans"}
    /\ plan = <<>>
    /\ pc' = IF pc = "orphans" THEN "checked" ELSE "done"
    /\ UNCHANGED <<composition, runtime, next_id, containers, orphans, diff, plan, calls,
                   run, clean, timeout, error, opt, image_specs, policy, images, requests,
                   file_services, inserts>>

(* the command is run again: a new process, a new controller *)
Rerun ==
    /\ pc \in {"done", "failed"}
    /\ run < MaxRuns
    /\ run' = run + 1
    /\ pc' = "start"
    /\ containers' = EmptyMap
    /\ orphans' = <<>>
    /\ diff' = <<>>
    /\ plan' = <<>>
    /\ calls' = <<>>
    /\ error' = ""
    /\ requests' = <<>>
    /\ UNCHANGED <<composition, runtime, next_id, clean, timeout, opt, image_specs, policy, images,
                   file_services, inserts>>

Next ==
    \/ ControllerInit
    \/ CheckOrphans
    \/ StartContainersDiff
    \/ ContainerApply
    \/ Finish
    \/ Rerun

Spec == Init /\ [][Next]_vars

(* The planners alone, on a controller of any composition and snapshot. *)
NextPlan ==
    \/ ControllerInit
    \/ CheckOrphans
    \/ StartContainersDiff

PlanSpec == InitPlan /\ [][NextPlan]_vars

----------------------------------------------------------------------------
(* main.rs, the subcommands stop and down: check_orphans, then the planner *)
(* of the subcommand.                                                       *)

(* the snapshots stop and down are planned from *)
InitDiff == InitOf(RuntimesOf(FALSE, MaxObserved), {TimeoutDefault})

(* let diff = controller.stop_containers_diff()? *)
StopContainersDiff ==
    /\ pc = "checked"
    /\ diff' = stop_containers_diff(composition, containers)
    /\ plan' = diff'
    /\ pc' = "stop_planned"
    /\ UNCHANGED <<composition, runtime, next_id, containers, orphans, calls, run, clean,
                   timeout, error, opt, image_specs, policy, images, requests,
                   file_services, inserts>>

(* let diff = controller.remove_containers_diff()? *)
RemoveContainersDiff ==
    /\ pc = "checked"
    /\ diff' = remove_containers_diff(composition, containers)
    /\ plan' = diff'
    /\ pc' = "down_planned"
    /\ UNCHANGED <<composition, runtime, next_id, containers, orphans, calls, run, clean,
                   timeout, error, opt, image_specs, policy, images, requests,
                   file_services, inserts>>

NextDiff ==
    \/ ControllerInit
    \/ CheckOrphans
    \/ StopContainersDiff
    \/ RemoveContainersDiff

DiffSpec == InitDiff /\ [][NextDiff]_vars

----------------------------------------------------------------------------
(* main.rs: container_apply handed one operation of any kind on any name,  *)
(* as check_orphans and the subcommands hand it the operations they made.   *)

(* controller.rs:19-26 *)
Operations == {"Create", "Recreate", "Start", "Stop", "Remove"}

(* values of --timeout: the default and one given on the command line *)
Timeouts == {TimeoutDefault, 30}

InitApply == InitOf(RuntimesOf(FALSE, MaxPresent), Timeouts)

(* the operations the driver's container_apply is called with *)
GivenOperation ==
    /\ pc = "ready"
    /\ \E name \in ContainerNames, operation \in Operations :
          diff' = << <<name, operation>> >>
    /\ plan' = diff'
    /\ pc' = "planned"
    /\ UNCHANGED <<composition, runtime, next_id, containers, orphans, calls, run, clean,
                   timeout, error, opt, image_specs, policy, images, requests,
                   file_services, inserts>>

NextApply ==
    \/ ControllerInit
    \/ GivenOperation
    \/ ContainerApply
    \/ Finish

ApplySpec == InitApply /\ [][NextApply]_vars

----------------------------------------------------------------------------
(* The driver whole: main.rs, the subcommands build, down, up and stop    *)
(* with their flags, the images included (RunSpec).                        *)

(* main.rs:33-72: the subcommands and the flags each of them takes *)
Opts ==
    {o \in [cmd : {"build", "down", "up", "stop"}, remove_orphans : BOOLEAN,
            volumes : BOOLEAN, build : BOOLEAN, pull : BOOLEAN] :
        /\ o.remove_orphans => o.cmd # "build"
        /\ o.volumes => o.cmd = "down"
        /\ o.build => o.cmd = "up"
        /\ o.pull => o.cmd = "build"}

(* the names of the images of services that name an image, and of those   *)
(* that are built and named after the project and the service              *)
PulledNames == {ImageName, "redis"}
BuiltNames == {"p_web", "p_db"}

SeqsUpTo(S, n) == UNION {[1..m -> S] : m \in 0..n}

(* docker_compose.rs:113-147: an ImagePullSpec or an ImageBuildSpec for    *)
(* each service *)
ImageSpecs ==
    {[pull_images |-> p, build_images |-> b] :
        p \in SeqsUpTo({[name |-> n] : n \in PulledNames}, MaxImages),
        b \in SeqsUpTo({[name |-> n] : n \in BuiltNames}, MaxImages)}

(* the services of the specs of a composition, each once, in their order *)
RECURSIVE ServicesOf(_)
ServicesOf(comp) ==
    IF comp = <<>> THEN <<>>
    ELSE LET rest == ServicesOf(SubSeq(comp, 1, Len(comp) - 1))
             service == comp[Len(comp)].service_name
         IN IF \E i \in DOMAIN rest : rest[i] = service THEN rest
            ELSE Append(rest, service)

(* the image specs of a composition none of whose services is built *)
PulledSpecs(comp) ==
    [pull_images |-> [i \in DOMAIN ServicesOf(comp) |-> [name |-> ImageName]],
     build_images |-> <<>>]

(* the image specs of a composition all of whose services are built, and  *)
(* name the image they are built as                                         *)
BuiltSpecs(comp) ==
    [pull_images |-> <<>>,
     build_images |-> [i \in DOMAIN ServicesOf(comp) |-> [name |-> ImageName]]]

(* A run starts either from a project with containers, whose services are  *)
(* all pulled or all built, or from a project whose services are scaled to  *)
(* no replica, with any image specs.                                        *)
InitRun ==
    /\ \/ /\ composition \in {c \in Compositions : Len(c) <= MaxPresent}
          /\ runtime \in RuntimesOf(FALSE, MaxPresent)
          /\ opt \in {o \in Opts : o.cmd # "build"}
          /\ image_specs \in {PulledSpecs(composition), BuiltSpecs(composition)}
          /\ images \in SUBSET {ImageName}
       \/ /\ composition = <<>>
          /\ runtime \in RuntimesOf(FALSE, 0)
          /\ opt \in {o \in Opts : o.cmd \in {"build", "up"} /\ ~o.remove_orphans}
          /\ image_specs \in ImageSpecs
          /\ images \in SUBSET PulledNames
    /\ next_id = Len(NameOrder) + 1
    /\ containers = EmptyMap
    /\ orphans = <<>>
    /\ diff = <<>>
    /\ plan = <<>>
    /\ calls = <<>>
    /\ pc = "start"
    /\ run = 1
    /\ clean = TRUE
    /\ timeout = TimeoutDefault
    /\ requests = <<>>
    /\ policy = "IfNotPresent"
    /\ file_services = EmptyMap
    /\ inserts = <<>>
    /\ error = ""

(* Controller::init when list_containers fails: the ? returns the error,   *)
(* and main returns it before a controller exists                           *)
ControllerInitFails ==
    /\ pc = "start"
    /\ requests' = Append(requests, [call |-> "list_containers",
                                     labels |-> << <<LABEL_PROJECT, ProjectName>> >>])
    /\ error' = "backend error"
    /\ clean' = FALSE
    /\ pc' = "init_failed"
    /\ UNCHANGED <<composition, runtime, next_id, containers, orphans, diff, plan, calls,
                   run, timeout, opt, image_specs, policy, images, file_services, inserts>>

(* main.rs:155: controller.pull_images(PullPolicy::IfNotPresent)? *)
PullImages ==
    /\ pc = "checked"
    /\ opt.cmd = "up"
    /\ \E fault \in 0..PullCallCount(image_specs.pull_images, images, "IfNotPresent") :
          LET r == pull_images(image_specs.pull_images, images, "IfNotPresent", fault)
          IN /\ images' = r.images
             /\ requests' = requests \o r.calls
             /\ error' = r.error
             /\ pc' = IF r.error = "" THEN "pulled" ELSE "failed"
             /\ clean' = (clean /\ r.error = "")
    /\ UNCHANGED <<composition, runtime, next_id, containers, orphans, diff, plan, calls,
                   run, timeout, opt, image_specs, policy, file_services, inserts>>

(* main.rs:129-135 and 157-163: the policies build_images is called with *)
BuildPolicyOf(o) == IF o.cmd = "build" \/ o.build THEN "Always" ELSE "IfChanged"

PullPolicyOf(o) == IF o.cmd = "build" /\ o.pull THEN "Always" ELSE "IfNotPresent"

(* controller.build_images(build_policy, pull_policy)?, the whole of the   *)
(* subcommand build and the step of up that follows pull_images             *)
BuildImages ==
    /\ \/ pc = "ready" /\ opt.cmd = "build"
       \/ pc = "pulled" /\ opt.cmd = "up"
    /\ \E changed \in SUBSET DOMAIN image_specs.build_images :
       \E fault \in 0..Cardinality(Built(image_specs.build_images, BuildPolicyOf(opt),
                                         changed)) :
          LET r == build_images(image_specs.build_images, images, BuildPolicyOf(opt),
                                changed, PullPolicyOf(opt), fault)
          IN /\ images' = r.images
             /\ requests' = requests \o r.calls
             /\ error' = r.error
             /\ pc' = IF r.error # "" THEN "failed"
                      ELSE IF opt.cmd = "build" THEN "done" ELSE "built"
             /\ clean' = (clean /\ r.error = "")
    /\ UNCHANGED <<composition, runtime, next_id, containers, orphans, diff, plan, calls,
                   run, timeout, opt, image_specs, policy, file_services, inserts>>

(* the Up arm, were the plan computed without waiting for the images *)
UpPlanAtOnce ==
    /\ pc = "checked"
    /\ opt.cmd = "up"
    /\ diff' = start_containers_diff(composition, containers)
    /\ plan' = diff'
    /\ pc' = "planned"
    /\ UNCHANGED <<composition, runtime, next_id, containers, orphans, calls, run, clean,
                   timeout, error, opt, image_specs, policy, images, requests,
                   file_services, inserts>>

(* main.rs:165: let diff = controller.start_containers_diff()? *)
UpPlan ==
    /\ pc = "built"
    /\ opt.cmd = "up"
    /\ diff' = start_containers_diff(composition, containers)
    /\ plan' = diff'
    /\ pc' = "planned"
    /\ UNCHANGED <<composition, runtime, next_id, containers, orphans, calls, run, clean,
                   timeout, error, opt, image_specs, policy, images, requests,
                   file_services, inserts>>

(* main.rs:144: let diff = controller.remove_containers_diff()? *)
DownPlan ==
    /\ pc = "checked"
    /\ opt.cmd = "down"
    /\ diff' = remove_containers_diff(composition, containers)
    /\ plan' = diff'
    /\ pc' = "planned"
    /\ UNCHANGED <<composition, runtime, next_id, containers, orphans, calls, run, clean,
                   timeout, error, opt, image_specs, policy, images, requests,
                   file_services, inserts>>

(* main.rs:174: let diff = controller.stop_containers_diff()? *)
StopPlan ==
    /\ pc = "checked"
    /\ opt.cmd = "stop"
    /\ diff' = stop_containers_diff(composition, containers)
    /\ plan' = diff'
    /\ pc' = "planned"
    /\ UNCHANGED <<composition, runtime, next_id, containers, orphans, calls, run, clean,
                   timeout, error, opt, image_specs, policy, images, requests,
                   file_services, inserts>>

NextRun ==
    \/ ControllerInit
    \/ ControllerInitFails
    \/ CheckOrphans
    \/ PullImages
    \/ BuildImages
    \/ UpPlan
    \/ DownPlan
    \/ StopPlan
    \/ ContainerApply
    \/ Finish

RunSpec == InitRun /\ [][NextRun]_vars

----------------------------------------------------------------------------
(* pull_images called with either policy on a controller whose composition *)
(* declares pull specs only (ImageSpec).                                    *)

InitImage ==
    /\ composition = <<>>
    /\ runtime \in RuntimesOf(FALSE, 0)
    /\ opt = UpDefaults
    /\ image_specs \in {s \in ImageSpecs : s.build_images = <<>>}
    /\ images \in SUBSET PulledNames
    /\ policy \in PullPolicies
    /\ file_services = EmptyMap
    /\ inserts = <<>>
    /\ next_id = Len(NameOrder) + 1
    /\ containers = EmptyMap
    /\ orphans = <<>>
    /\ diff = <<>>
    /\ plan = <<>>
    /\ calls = <<>>
    /\ pc = "start"
    /\ run = 1
    /\ clean = TRUE
    /\ timeout = TimeoutDefault
    /\ requests = <<>>
    /\ error = ""

(* controller.pull_images(pull_policy) *)
PullImagesWith ==
    /\ pc = "ready"
    /\ \E fault \in 0..PullCallCount(image_specs.pull_images, images, policy) :
          LET r == pull_images(image_specs.pull_images, images, policy, fault)
          IN /\ images' = r.images
             /\ requests' = requests \o r.calls
             /\ error' = r.error
             /\ pc' = IF r.error = "" THEN "pulled" ELSE "failed"
             /\ clean' = (clean /\ r.error = "")
    /\ UNCHANGED <<composition, runtime, next_id, containers, orphans, diff, plan, calls,
                   run, timeout, opt, image_specs, policy, file_services, inserts>>

NextImage ==
    \/ ControllerInit
    \/ PullImagesWith

ImageSpec == InitImage /\ [][NextImage]_vars

----------------------------------------------------------------------------
(* The digest of a spec where it is taken: by container_create of one      *)
(* controller, and by start_containers_diff of another that holds a spec    *)
(* built on its own (DigestSpec).                                           *)

LabelEntries == {<<k, v>> : k \in {"env", "tier"}, v \in {"prod", "dev"}}

(* Map::insert of the entries, one after the other *)
RECURSIVE Collected(_)
Collected(entries) ==
    IF entries = <<>> THEN EmptyMap
    ELSE LET last == entries[Len(entries)]
         IN Insert(Collected(SubSeq(entries, 1, Len(entries) - 1)), last[1], last[2])

(* the spec of a name whose labels the inserts have filled *)
SpecBuilt(name, service_name, entries) ==
    [name |-> name, service_name |-> service_name, image_name |-> ImageName,
     labels |-> Collected(entries)]

(* at most MaxLabels inserts, and the entries the map holds after them *)
LabelInserts ==
    {[inserted |-> e, stored |-> Stored(e)] : e \in SeqsUpTo(LabelEntries, MaxLabels)}

(* composition[1] is the spec the planning controller holds, composition[2] *)
(* the spec the creating controller holds; the labels of each were filled   *)
(* by inserts of its own                                                    *)
InitDigest ==
    /\ inserts \in [1..2 -> LabelInserts]
    /\ \E n \in ContainerNames : \E s \in [1..2 -> ServiceNames] :
          composition = [i \in 1..2 |-> SpecBuilt(n, s[i], inserts[i].inserted)]
    /\ runtime \in RuntimesOf(FALSE, 0)
    /\ next_id = Len(NameOrder) + 1
    /\ containers = EmptyMap
    /\ orphans = <<>>
    /\ diff = <<>>
    /\ plan = <<>>
    /\ calls = <<>>
    /\ pc = "start"
    /\ run = 1
    /\ clean = TRUE
    /\ timeout = TimeoutDefault
    /\ opt = UpDefaults
    /\ image_specs = NoImageSpecs
    /\ images = {}
    /\ requests = <<>>
    /\ policy = "IfNotPresent"
    /\ file_services = EmptyMap
    /\ error = ""

(* Controller::init of the controller that holds composition[2] is        *)
(* ControllerInit: it lists the runtime, in which no container is yet.      *)

(* container_apply(name, Create) of the controller that holds composition[2] *)
CreateSecond ==
    /\ pc = "ready"
    /\ LET r == container_apply(<<composition[2]>>, containers, runtime, next_id,
                                composition[2].name, "Create", timeout, 0)
       IN /\ runtime' = r.rt
          /\ next_id' = r.nid
          /\ calls' = calls \o r.calls
          /\ error' = r.error
    /\ pc' = "created"
    /\ UNCHANGED <<composition, containers, orphans, diff, plan, run, clean, timeout,
                   opt, image_specs, policy, images, requests, file_services, inserts>>

(* Controller::init of the controller that holds composition[1] *)
ControllerInitFirst ==
    /\ pc = "created"
    /\ containers' = list_containers(runtime, << <<LABEL_PROJECT, ProjectName>> >>)
    /\ requests' = Append(requests, [call |-> "list_containers",
                                     labels |-> << <<LABEL_PROJECT, ProjectName>> >>])
    /\ pc' = "listed"
    /\ UNCHANGED <<composition, runtime, next_id, orphans, diff, plan, calls, run, clean,
                   timeout, error, opt, image_specs, policy, images, file_services, inserts>>

(* start_containers_diff of the controller that holds composition[1] *)
PlanFirst ==
    /\ pc = "listed"
    /\ diff' = start_containers_diff(<<composition[1]>>, containers)
    /\ pc' = "hashed"
    /\ UNCHANGED <<composition, runtime, next_id, containers, orphans, plan, calls, run,
                   clean, timeout, error, opt, image_specs, policy, images, requests,
                   file_services, inserts>>

NextDigest ==
    \/ ControllerInit
    \/ CreateSecond
    \/ ControllerInitFirst
    \/ PlanFirst

DigestSpec == InitDigest /\ [][NextDigest]_vars

----------------------------------------------------------------------------
(* frontends/docker_compose.rs: the composition of a compose file, and the *)
(* plan of up a controller makes of it (FrontendSpec).                      *)

(* Ascending order of the service names (file.services is a BTreeMap). *)
ServiceOrder == <<"db", "web">>

(* format!("{}_{}", project_name, service_name) *)
DefaultImageName(project_name, service_name) == project_name \o "_" \o service_name

(* format!("{}_{}_{}", project_name, service_name, index) *)
ContainerNameOf(project_name, service_name, index) ==
    project_name \o "_" \o service_name \o "_" \o ToString(index)

(* service.replicas.unwrap_or(0) *)
ReplicasOrNone(service) == IF service.replicas = <<>> THEN 0 ELSE service.replicas[1]

(* service.replicas.unwrap_or(1) *)
ReplicasOf(service) == IF service.replicas = <<>> THEN 1 ELSE service.replicas[1]

(* the image name of a service: service.image, or the default *)
ImageNameOf(project_name, service_name, service) ==
    IF service.image # <<>> THEN service.image[1]
    ELSE DefaultImageName(project_name, service_name)

(* docker_compose.rs:105-159: the loop over file.services, from service i  *)
(* of the order on                                                          *)
RECURSIVE CompositionFrom(_, _, _, _)
CompositionFrom(project_name, services, i, built) ==
    IF i > Len(ServiceOrder) THEN built
    ELSE IF ServiceOrder[i] \notin DOMAIN services
         THEN CompositionFrom(project_name, services, i + 1, built)
         ELSE LET service_name == ServiceOrder[i]
                  service == services[service_name]
                  image_name == ImageNameOf(project_name, service_name, service)
                  specs == [index \in 1..ReplicasOf(service) |->
                               [service_name |-> service_name,
                                image_name |-> image_name,
                                name |-> ContainerNameOf(project_name, service_name,
                                                         index - 1),
                                labels |-> EmptyMap]]
              IN CompositionFrom(project_name, services, i + 1,
                     [build_images |->
                          IF service.build # <<>>
                          THEN Append(built.build_images, [name |-> image_name])
                          ELSE built.build_images,
                      pull_images |->
                          IF service.build # <<>> THEN built.pull_images
                          ELSE Append(built.pull_images, [name |-> image_name]),
                      containers |-> built.containers \o specs])

(* DockerComposeFrontend::composition *)
FrontendComposition(project_name, services) ==
    CompositionFrom(project_name, services, 1,
                    [build_images |-> <<>>, pull_images |-> <<>>, containers |-> <<>>])

(* struct Service: replicas, image and build, each given or not *)
Services ==
    [replicas : {<<>>} \cup {<<n>> : n \in 0..MaxReplicas},
     image : {<<>>, <<ImageName>>},
     build : {<<>>, <<".">>}]

ComposeFiles == UNION {[S -> Services] : S \in SUBSET ServiceNames}

(* the runtimes whose containers an earlier up or stop has left Running or *)
(* Exited                                                                   *)
LeftRuntimes ==
    {rt \in RuntimesOf(FALSE, MaxPresent) :
        \A id \in DOMAIN rt : rt[id].status \in {"running", "exited"}}

InitFrontend ==
    /\ file_services \in ComposeFiles
    /\ inserts = <<>>
    /\ composition = <<>>
    /\ image_specs = NoImageSpecs
    /\ runtime \in LeftRuntimes
    /\ next_id = Len(NameOrder) + 1
    /\ containers = EmptyMap
    /\ orphans = <<>>
    /\ diff = <<>>
    /\ plan = <<>>
    /\ calls = <<>>
    /\ pc = "parse"
    /\ run = 1
    /\ clean = TRUE
    /\ timeout = TimeoutDefault
    /\ opt = UpDefaults
    /\ images = {}
    /\ requests = <<>>
    /\ policy = "IfNotPresent"
    /\ error = ""

(* main.rs:116: let composition = frontend.composition(project_name, ..)? *)
ParseComposition ==
    /\ pc = "parse"
    /\ LET parsed == FrontendComposition(ProjectName, file_services)
       IN /\ composition' = parsed.containers
          /\ image_specs' = [pull_images |-> parsed.pull_images,
                             build_images |-> parsed.build_images]
    /\ pc' = "start"
    /\ UNCHANGED <<runtime, next_id, containers, orphans, diff, plan, calls, run, clean,
                   timeout, error, opt, images, requests, policy, file_services, inserts>>

(* main.rs:116-165 for up: the composition, Controller::init,             *)
(* check_orphans, pull_images, build_images and start_containers_diff       *)
NextFrontend ==
    \/ ParseComposition
    \/ ControllerInit
    \/ CheckOrphans
    \/ PullImages
    \/ BuildImages
    \/ UpPlan

FrontendSpec == InitFrontend /\ [][NextFrontend]_vars

----------------------------------------------------------------------------
(* list_containers called with any filter on any runtime (ListSpec). *)

(* the filters a caller can pass: none, one pair, pairs on two labels, and *)
(* two pairs on one label                                                   *)
LabelFilters ==
    {<<>>,
     << <<LABEL_PROJECT, ProjectName>> >>,
     << <<LABEL_PROJECT, "q">> >>,
     << <<LABEL_SERVICE, "web">> >>,
     << <<LABEL_PROJECT, ProjectName>>, <<LABEL_SERVICE, "web">> >>,
     << <<LABEL_SERVICE, "db">>, <<LABEL_PROJECT, ProjectName>> >>,
     << <<LABEL_SERVICE, "web">>, <<LABEL_SERVICE, "db">> >>}

InitList ==
    /\ composition = <<>>
    /\ runtime \in RuntimesOf(TRUE, MaxObserved)
    /\ next_id = Len(NameOrder) + 1
    /\ containers = EmptyMap
    /\ orphans = <<>>
    /\ diff = <<>>
    /\ plan = <<>>
    /\ calls = <<>>
    /\ pc = "start"
    /\ run = 1
    /\ clean = TRUE
    /\ timeout = TimeoutDefault
    /\ opt = UpDefaults
    /\ image_specs = NoImageSpecs
    /\ images = {}
    /\ requests = <<>>
    /\ policy = "IfNotPresent"
    /\ file_services = EmptyMap
    /\ inserts = <<>>
    /\ error = ""

(* backend.list_containers(labels) *)
ListContainers ==
    /\ pc = "start"
    /\ \E labels \in LabelFilters :
          /\ containers' = list_containers(runtime, labels)
          /\ requests' = Append(requests, [call |-> "list_containers", labels |-> labels])
    /\ pc' = "listed"
    /\ UNCHANGED <<composition, runtime, next_id, orphans, diff, plan, calls, run, clean,
                   timeout, error, opt, image_specs, policy, images, file_services, inserts>>

NextList == ListContainers

ListSpec == InitList /\ [][NextList]_vars

----------------------------------------------------------------------------
(* What the properties below speak of. *)

Range(seq) == {seq[i] : i \in DOMAIN seq}

(* the operations the plan holds for a name, in plan order *)
Entries(name) == SelectSeq(diff, LAMBDA e : e[1] = name)

DeclaredNames == {composition[i].name : i \in DOMAIN composition}

ServiceLabel(name) == Get(containers[name].labels, LABEL_SERVICE)

ServiceIsDeclared(name) ==
    \E i \in DOMAIN composition : ServiceLabel(name) = <<composition[i].service_name>>

(* the names Stream B removes *)
RemovedNames == {diff[i][1] : i \in {j \in DOMAIN diff : diff[j][2] = "Remove"}}

(* the runtime's containers of a name *)
RuntimeIds(name) == {id \in DOMAIN runtime : runtime[id].names = name}

HashLabelMatches(labels, spec) == Get(labels, LABEL_HASH) = <<SpecHashHex(spec)>>

----------------------------------------------------------------------------
(* C1: for a declared spec whose container is absent, or present with the  *)
(* hash label of the spec, plan_up emits exactly Create when the runtime    *)
(* has no container of the name, Start when its status is configured or    *)
(* exited, nothing when it is running, and Recreate for any other status    *)
(* string (Unknown).  Checked on the planners' specification, where the     *)
(* runtime is the one the snapshot was listed from.                         *)
C1_UpTable ==
    pc = "planned" =>
        \A i \in DOMAIN composition :
            LET spec == composition[i]
                ids == RuntimeIds(spec.name)
            IN /\ ids = {} => Entries(spec.name) = << <<spec.name, "Create">> >>
               /\ \A id \in ids :
                     HashLabelMatches(runtime[id].labels, spec) =>
                        Entries(spec.name) =
                            IF runtime[id].status \in {"configured", "exited"}
                            THEN << <<spec.name, "Start">> >>
                            ELSE IF runtime[id].status = "running"
                            THEN <<>>
                            ELSE << <<spec.name, "Recreate">> >>

(* a declared container with the spec's hash and an unrecognised status is *)
(* planned to be recreated, next to a declared container that is absent     *)
C1_Witness ==
    /\ pc = "planned"
    /\ \E i, j \in DOMAIN composition :
          /\ RuntimeIds(composition[j].name) = {}
          /\ \E id \in RuntimeIds(composition[i].name) :
                /\ HashLabelMatches(runtime[id].labels, composition[i])
                /\ runtime[id].status = "paused"
          /\ Entries(composition[i].name) = << <<composition[i].name, "Recreate">> >>

(* C2: for a declared spec whose container is in the snapshot with a hash  *)
(* label that is missing or is not the spec's hash, plan_up emits Recreate  *)
(* and nothing else for the name, whatever the status.                      *)
C2_HashMismatchRecreates ==
    pc = "planned" =>
        \A i \in DOMAIN composition :
            LET spec == composition[i]
            IN (/\ spec.name \in DOMAIN containers
                /\ ~HashLabelMatches(containers[spec.name].labels, spec))
                  => Entries(spec.name) = << <<spec.name, "Recreate">> >>

(* a Running container with another hash and one with no hash label, both *)
(* planned to be recreated                                                  *)
C2_Witness ==
    /\ pc = "planned"
    /\ \E i, j \in DOMAIN composition :
          /\ composition[i].name \in DOMAIN containers
          /\ composition[j].name \in DOMAIN containers
          /\ containers[composition[i].name].status = "Running"
          /\ Get(containers[composition[i].name].labels, LABEL_HASH)
                = <<SpecHashHex(StaleSpec(composition[i].name))>>
          /\ Get(containers[composition[j].name].labels, LABEL_HASH) = <<>>
          /\ Entries(composition[i].name) = << <<composition[i].name, "Recreate">> >>
          /\ Entries(composition[j].name) = << <<composition[j].name, "Recreate">> >>

(* C3: Stream B of plan_up holds one Remove for each container of the      *)
(* snapshot whose service label is a declared service name and whose name   *)
(* is not declared, and a Remove for no other name.                         *)
C3_StreamBExact ==
    pc = "planned" =>
        LET scaled_down == {n \in DOMAIN containers :
                               ServiceIsDeclared(n) /\ n \notin DeclaredNames}
        IN /\ RemovedNames = scaled_down
           /\ Len(SelectSeq(diff, LAMBDA e : e[2] = "Remove")) = Cardinality(scaled_down)

(* a scaled-down container is removed while an undeclared container of an  *)
(* undeclared service is not                                                *)
C3_Witness ==
    /\ pc = "planned"
    /\ RemovedNames # {}
    /\ \E n \in DOMAIN containers :
          /\ n \notin DeclaredNames
          /\ ServiceLabel(n) # <<>>
          /\ ~ServiceIsDeclared(n)
          /\ n \notin RemovedNames

(* C4: converge in one step.  When an invocation of up has applied every   *)
(* operation of its plan without error and the command is run again, the    *)
(* new controller, which lists the runtime afresh, plans nothing.           *)
C4_ConvergeInOneStep ==
    (run > 1 /\ clean /\ pc = "planned") => diff = <<>>

(* the second run plans nothing after a first run that created a container *)
(* and left no container of the start as it was                             *)
C4_Witness ==
    /\ run = 2
    /\ clean
    /\ pc = "planned"
    /\ diff = <<>>
    /\ next_id > Len(NameOrder) + 1
    /\ \E id \in DOMAIN runtime : id <= Len(NameOrder) /\ runtime[id].status = "running"

(* the snapshot holds only containers of declared names, each Running with *)
(* the hash label of its spec                                               *)
NoObservedDrift ==
    \A n \in DOMAIN containers :
        /\ containers[n].status = "Running"
        /\ \E i \in DOMAIN composition :
              /\ composition[i].name = n
              /\ HashLabelMatches(containers[n].labels, composition[i])

(* C5 as stated: when every container of the snapshot is Running and       *)
(* carries the hash label of its declared spec, plan_up is empty.           *)
C5_NoDriftAsStated ==
    (pc = "planned" /\ NoObservedDrift) => diff = <<>>

(* C5, amended: when moreover every declared spec has its container in the *)
(* snapshot, plan_up is empty.                                              *)
C5_NoDriftIsEmpty ==
    (pc = "planned" /\ NoObservedDrift /\ DeclaredNames \subseteq DOMAIN containers)
        => diff = <<>>

(* two declared containers, both Running with their hashes, and no plan *)
C5_Witness ==
    /\ pc = "planned"
    /\ NoObservedDrift
    /\ Len(composition) = 2
    /\ DeclaredNames = DOMAIN containers
    /\ diff = <<>>

(* C6: find_orphans returns, once each, the names of the snapshot whose    *)
(* service label is absent or is the service_name of no declared spec, and  *)
(* no other name.                                                           *)
C6_OrphansExact ==
    pc \in {"checked", "planned"} =>
        LET expected == {n \in DOMAIN containers :
                            \/ LABEL_SERVICE \notin DOMAIN containers[n].labels
                            \/ \A i \in DOMAIN composition :
                                  containers[n].labels[LABEL_SERVICE]
                                      # composition[i].service_name}
        IN /\ Range(orphans) = expected
           /\ Len(orphans) = Cardinality(expected)

(* of two containers, the one without a service label is an orphan and the *)
(* one of a declared service is not                                         *)
C6_Witness ==
    /\ pc = "checked"
    /\ Len(orphans) = 1
    /\ LABEL_SERVICE \notin DOMAIN containers[orphans[1]].labels
    /\ \E n \in DOMAIN containers : n # orphans[1] /\ ServiceIsDeclared(n)

(* C7: no name that find_orphans returns has an operation in plan_up. *)
C7_OrphansNotPlanned ==
    pc = "planned" => \A i \in DOMAIN orphans : Entries(orphans[i]) = <<>>

(* C8: the names find_orphans returns and the names Stream B removes have  *)
(* no element in common.                                                    *)
C8_OrphansDisjointFromScaledDown ==
    pc = "planned" => Range(orphans) \cap RemovedNames = {}

(* an orphan and a scaled-down container in one snapshot *)
C8_Witness ==
    /\ pc = "planned"
    /\ Range(orphans) # {}
    /\ RemovedNames # {}

(* the place of a declared name in the composition *)
DeclaredAt(name) == CHOOSE i \in DOMAIN composition : composition[i].name = name

(* C9: in plan_up the operations of Stream A (Create, Recreate, Start) are *)
(* in the order their specs are declared in, and every Remove of Stream B   *)
(* comes after every operation of Stream A.                                 *)
C9_PlanOrder ==
    pc = "planned" =>
        \A i, j \in DOMAIN diff :
            i < j =>
                /\ diff[i][2] = "Remove" => diff[j][2] = "Remove"
                /\ (diff[i][2] # "Remove" /\ diff[j][2] # "Remove")
                      => /\ diff[i][1] \in DeclaredNames
                         /\ diff[j][1] \in DeclaredNames
                         /\ DeclaredAt(diff[i][1]) < DeclaredAt(diff[j][1])

(* two operations of Stream A, declared against the order of the names,    *)
(* and a Remove after them                                                  *)
C9_Witness ==
    /\ pc = "planned"
    /\ Len(diff) = 3
    /\ diff[1][2] # "Remove"
    /\ diff[2][2] # "Remove"
    /\ diff[3][2] = "Remove"
    /\ diff[1][1] = "p_web_1"
    /\ diff[2][1] = "p_db_0"

(* C10: the names of the model's compositions are pairwise distinct, and   *)
(* plan_up holds at most one operation for each declared name, the Removes  *)
(* of Stream B counted.                                                     *)
C10_OneOperationPerName ==
    pc = "planned" =>
        /\ \A i, j \in DOMAIN composition :
              i # j => composition[i].name # composition[j].name
        /\ \A i \in DOMAIN composition : Len(Entries(composition[i].name)) <= 1

(* a declared container of a declared service has its one operation while  *)
(* another container of that service is removed by Stream B                 *)
C10_Witness ==
    /\ pc = "planned"
    /\ RemovedNames # {}
    /\ \E i \in DOMAIN composition :
          /\ composition[i].name \in DOMAIN containers
          /\ ServiceIsDeclared(composition[i].name)
          /\ Len(Entries(composition[i].name)) = 1

(* the places of the composition whose container the snapshot holds with   *)
(* one of the given statuses, in ascending order                            *)
DeclaredWithStatus(statuses) ==
    SelectSeq([i \in DOMAIN composition |-> i],
              LAMBDA i : /\ composition[i].name \in DOMAIN containers
                         /\ containers[composition[i].name].status \in statuses)

(* C11: plan_stop (stop_containers_diff) holds, in declaration order, one  *)
(* (name, Stop) for each declared container that the snapshot holds with    *)
(* status Running, and nothing else: no operation for a declared container  *)
(* that is absent or not Running, none for an undeclared container.         *)
C11_StopRunningDeclared ==
    pc = "stop_planned" =>
        LET running == DeclaredWithStatus({"Running"})
        IN diff = [k \in DOMAIN running |-> <<composition[running[k]].name, "Stop">>]

(* two declared containers in the snapshot: the Running one is stopped, the *)
(* Exited one is left alone                                                 *)
C11_Witness ==
    /\ pc = "stop_planned"
    /\ Len(composition) = 2
    /\ Len(diff) = 1
    /\ containers[diff[1][1]].status = "Running"
    /\ \E i \in DOMAIN composition :
          /\ composition[i].name \in DOMAIN containers
          /\ containers[composition[i].name].status = "Exited"

(* C12: plan_down (remove_containers_diff) holds, in declaration order,    *)
(* one (name, Remove) for each declared container that the snapshot holds,  *)
(* whatever its status, and nothing else: no operation for a declared       *)
(* container that is absent, none for an undeclared container.              *)
C12_RemovePresentDeclared ==
    pc = "down_planned" =>
        LET present == DeclaredWithStatus({"Configured", "Running", "Exited", "Unknown"})
        IN diff = [k \in DOMAIN present |-> <<composition[present[k]].name, "Remove">>]

(* two declared containers removed against the order of their names, one   *)
(* of them Running and one of a status the listing does not know            *)
C12_Witness ==
    /\ pc = "down_planned"
    /\ diff = << <<"p_web_0", "Remove">>, <<"p_db_0", "Remove">> >>
    /\ containers["p_web_0"].status = "Running"
    /\ containers["p_db_0"].status = "Unknown"

----------------------------------------------------------------------------
(* One operation applied (ApplySpec). *)

(* the one operation container_apply was handed has returned *)
Returned(operation) ==
    /\ Len(diff) = 1
    /\ diff[1][2] = operation
    /\ plan = <<>> \/ pc = "failed"

AppliedName == diff[1][1]

IsDeclared(name) == name \in DeclaredNames

(* the first declared spec of a declared name *)
SpecOf(name) ==
    composition[CHOOSE i \in DOMAIN composition :
                    /\ composition[i].name = name
                    /\ \A j \in 1..(i - 1) : composition[j].name # name]

(* the labels a created container is to carry: those of the spec and the   *)
(* project, the service and the hash of the spec                            *)
ExpectedLabels(spec) ==
    [k \in DOMAIN spec.labels \cup {LABEL_PROJECT, LABEL_SERVICE, LABEL_HASH} |->
        CASE k = LABEL_PROJECT -> ProjectName
          [] k = LABEL_SERVICE -> spec.service_name
          [] k = LABEL_HASH -> SpecHashHex(spec)
          [] OTHER -> spec.labels[k]]

IsCreateOf(call, spec) ==
    call = [call |-> "create_container",
            spec |-> [spec EXCEPT !.labels = ExpectedLabels(spec)]]

(* the call starts the container that the runtime now holds under the name *)
IsStartOfCreated(call, name) ==
    /\ call.call = "start_container"
    /\ DOMAIN call = {"call", "name"}
    /\ RuntimeIds(name) = {call.name}
    /\ call.name \notin {containers[n].id : n \in DOMAIN containers}

(* C13: apply(name, Create) for a declared name makes two backend calls,   *)
(* in this order: create_container with the declared spec whose labels      *)
(* carry in addition project = the project name, service = the spec's       *)
(* service_name and hash = the spec's hash, then start_container with the   *)
(* id create_container returned.  When a call fails the calls made are the  *)
(* first or both of these two.                                              *)
C13_CreateCalls ==
    (Returned("Create") /\ IsDeclared(AppliedName)) =>
        /\ error \in {"", "backend error"}
        /\ Len(calls) \in {1, 2}
        /\ IsCreateOf(calls[1], SpecOf(AppliedName))
        /\ Len(calls) = 2 =>
              /\ IsStartOfCreated(calls[2], AppliedName)
              /\ runtime[calls[2].name].labels = ExpectedLabels(SpecOf(AppliedName))
        /\ error = "" => Len(calls) = 2

(* a declared container is created next to another of the project and is   *)
(* running afterwards                                                       *)
C13_Witness ==
    /\ Returned("Create")
    /\ IsDeclared(AppliedName)
    /\ error = ""
    /\ Len(calls) = 2
    /\ Cardinality(DOMAIN runtime) = 2
    /\ \E id \in RuntimeIds(AppliedName) : runtime[id].status = "running"

(* the runtime as a new controller would list it *)
Relisted == list_containers(runtime, << <<LABEL_PROJECT, ProjectName>> >>)

(* the runtime holds a container of the name that the snapshot did not *)
CreatedIds(name) ==
    {id \in RuntimeIds(name) : id \notin {containers[n].id : n \in DOMAIN containers}}

(* C14: the hash label that Create and Recreate write is taken from the    *)
(* declared spec before the three system labels are inserted: it is the     *)
(* hash plan_up computes for the same declared spec, so plan_up does not    *)
(* see a hash mismatch on the new container, and it is not the hash of the  *)
(* spec with the inserted labels.                                           *)
C14_HashBeforeLabels ==
    ((Returned("Create") \/ Returned("Recreate")) /\ IsDeclared(AppliedName)) =>
        \A id \in CreatedIds(AppliedName) :
            LET spec == SpecOf(AppliedName)
            IN /\ Get(runtime[id].labels, LABEL_HASH) = <<SpecHashHex(spec)>>
               /\ Get(runtime[id].labels, LABEL_HASH)
                     # <<SpecHashHex([spec EXCEPT !.labels = runtime[id].labels])>>
               /\ SpecOperation(spec, Relisted) # << <<spec.name, "Recreate">> >>
               /\ runtime[id].status = "running" => SpecOperation(spec, Relisted) = <<>>

(* a container whose hash label was that of an earlier spec is recreated,  *)
(* and plan_up has nothing to do for the new one                            *)
C14_Witness ==
    /\ Returned("Recreate")
    /\ error = ""
    /\ IsDeclared(AppliedName)
    /\ Get(containers[AppliedName].labels, LABEL_HASH)
          = <<SpecHashHex(StaleSpec(AppliedName))>>
    /\ CreatedIds(AppliedName) # {}
    /\ SpecOperation(SpecOf(AppliedName), Relisted) = <<>>

(* stop_container(id, timeout) of the snapshot's container of the name if  *)
(* the snapshot has it Running, then remove_container(id, false)            *)
StopAndRemove(name) ==
    (IF containers[name].status = "Running"
     THEN << [call |-> "stop_container", name |-> containers[name].id,
              timeout |-> timeout] >>
     ELSE <<>>)
    \o << [call |-> "remove_container", name |-> containers[name].id,
           remove_volumes |-> FALSE] >>

IsPrefix(s, t) == Len(s) <= Len(t) /\ \A k \in DOMAIN s : s[k] = t[k]

(* C15: apply(name, Recreate) for a declared name that the snapshot holds  *)
(* makes these backend calls, in this order: stop_container(old id,         *)
(* timeout) if and only if the snapshot's status is Running, then           *)
(* remove_container(old id, false), then create_container with the          *)
(* labelled spec, then start_container(new id).  When it succeeds all of    *)
(* them were made, so nothing lies between the stop and the remove; when a  *)
(* call fails the calls made are a beginning of this sequence.              *)
C15_RecreateCalls ==
    (Returned("Recreate") /\ IsDeclared(AppliedName) /\ AppliedName \in DOMAIN containers) =>
        LET old == StopAndRemove(AppliedName)
            n == Len(old)
        IN /\ error \in {"", "backend error"}
           /\ Len(calls) \in 1..(n + 2)
           /\ IsPrefix(calls, old) \/ IsPrefix(old, calls)
           /\ Len(calls) > n => IsCreateOf(calls[n + 1], SpecOf(AppliedName))
           /\ Len(calls) > n + 1 => IsStartOfCreated(calls[n + 2], AppliedName)
           /\ error = "" => Len(calls) = n + 2

(* a Running container is recreated with four calls *)
C15_Witness ==
    /\ Returned("Recreate")
    /\ error = ""
    /\ AppliedName \in DOMAIN containers
    /\ containers[AppliedName].status = "Running"
    /\ Len(calls) = 4
    /\ calls[1].call = "stop_container"
    /\ calls[2].call = "remove_container"
    /\ calls[4].name # calls[1].name

(* C16: apply(name, Remove) for a name that the snapshot holds calls        *)
(* stop_container(id, timeout) if and only if the snapshot's status is      *)
(* Running, then remove_container(id, false); for Configured, Exited and    *)
(* Unknown the one backend call is remove_container.                        *)
C16_RemoveCalls ==
    (Returned("Remove") /\ AppliedName \in DOMAIN containers) =>
        LET expected == StopAndRemove(AppliedName)
        IN /\ error \in {"", "backend error"}
           /\ calls # <<>>
           /\ IsPrefix(calls, expected)
           /\ error = "" => calls = expected
           /\ containers[AppliedName].status # "Running" =>
                 /\ Len(calls) = 1
                 /\ calls[1].call = "remove_container"
           /\ containers[AppliedName].status = "Running" =>
                 calls[1].call = "stop_container"

(* an undeclared Running container is stopped and removed: the runtime is  *)
(* left without it                                                          *)
C16_Witness ==
    /\ Returned("Remove")
    /\ error = ""
    /\ AppliedName \in DOMAIN containers
    /\ ~IsDeclared(AppliedName)
    /\ containers[AppliedName].status = "Running"
    /\ Len(calls) = 2
    /\ RuntimeIds(AppliedName) = {}

(* C17: apply(name, Start) makes one backend call, start_container with    *)
(* the snapshot's id of the name; apply(name, Stop) makes one backend call, *)
(* stop_container with that id and the caller's timeout, whatever the       *)
(* snapshot's status.  The timeout goes to the stop_container calls of an   *)
(* operation and to no other call.                                          *)
C17_StartStopCalls ==
    /\ (Returned("Start") /\ AppliedName \in DOMAIN containers) =>
          calls = << [call |-> "start_container", name |-> containers[AppliedName].id] >>
    /\ (Returned("Stop") /\ AppliedName \in DOMAIN containers) =>
          calls = << [call |-> "stop_container", name |-> containers[AppliedName].id,
                      timeout |-> timeout] >>
    /\ (\E operation \in Operations : Returned(operation)) =>
          \A k \in DOMAIN calls :
              /\ "timeout" \in DOMAIN calls[k] <=> calls[k].call = "stop_container"
              /\ calls[k].call = "stop_container" => calls[k].timeout = timeout

(* an Exited container is stopped with a timeout that is not the default *)
C17_Witness ==
    /\ Returned("Stop")
    /\ error = ""
    /\ timeout # TimeoutDefault
    /\ AppliedName \in DOMAIN containers
    /\ containers[AppliedName].status = "Exited"
    /\ calls = << [call |-> "stop_container", name |-> containers[AppliedName].id,
                   timeout |-> timeout] >>

(* container_apply failed with the message before it made a backend call:  *)
(* the runtime is as the controller listed it                               *)
FailedBeforeAnyCall(message) ==
    /\ pc = "failed"
    /\ error = message
    /\ calls = <<>>
    /\ Relisted = containers
    /\ next_id = Len(NameOrder) + 1

(* C18 as stated: apply of Create or Recreate with a name that no declared *)
(* spec has fails with "unknown container name", and apply of Recreate,     *)
(* Start, Stop or Remove with a name absent from the snapshot fails with    *)
(* "could not find container", each before any backend call.                *)
C18_PlanningErrorsAsStated ==
    /\ ((Returned("Create") \/ Returned("Recreate")) /\ ~IsDeclared(AppliedName))
          => FailedBeforeAnyCall("unknown container name")
    /\ ((Returned("Recreate") \/ Returned("Start") \/ Returned("Stop") \/ Returned("Remove"))
          /\ AppliedName \notin DOMAIN containers)
          => FailedBeforeAnyCall("could not find container")

(* C18, amended: apply of Create or Recreate with a name that no declared  *)
(* spec has fails with "unknown container name"; apply of Start, Stop or    *)
(* Remove with a name absent from the snapshot, and apply of Recreate with  *)
(* a declared name absent from the snapshot, fails with "could not find     *)
(* container"; each before any backend call.                                *)
C18_PlanningErrors ==
    /\ ((Returned("Create") \/ Returned("Recreate")) /\ ~IsDeclared(AppliedName))
          => FailedBeforeAnyCall("unknown container name")
    /\ ((Returned("Start") \/ Returned("Stop") \/ Returned("Remove")
             \/ (Returned("Recreate") /\ IsDeclared(AppliedName)))
          /\ AppliedName \notin DOMAIN containers)
          => FailedBeforeAnyCall("could not find container")

(* Recreate of a declared name that the snapshot lacks fails with "could   *)
(* not find container" while the runtime holds another container, which    *)
(* is left as it was                                                        *)
C18_Witness ==
    /\ Returned("Recreate")
    /\ IsDeclared(AppliedName)
    /\ AppliedName \notin DOMAIN containers
    /\ FailedBeforeAnyCall("could not find container")
    /\ DOMAIN runtime # {}

----------------------------------------------------------------------------
(* A plan applied (Spec). *)

(* the operations of the plan that have been applied *)
Applied == Len(diff) - Len(plan)

(* the calls with the id of a created container written as CreatedId *)
Symbolic(cs) ==
    [k \in DOMAIN cs |->
        IF k > 1 /\ cs[k].call = "start_container" /\ cs[k - 1].call = "create_container"
        THEN [cs[k] EXCEPT !.name = CreatedId]
        ELSE cs[k]]

(* the calls of operation k of the plan *)
CallsOf(k) == OperationCalls(composition, containers, diff[k][1], diff[k][2], timeout)[2]

(* the calls of the first k operations of the plan, one operation after    *)
(* the other                                                                *)
RECURSIVE CallsUpTo(_)
CallsUpTo(k) == IF k = 0 THEN <<>> ELSE CallsUpTo(k - 1) \o CallsOf(k)

(* the runtime and its next id after the calls, each taking effect; <<>>   *)
(* when the runtime refuses one of them                                     *)
RECURSIVE Replay(_, _, _, _)
Replay(rt, nid, cs, k) ==
    IF k > Len(cs) THEN <<rt, nid>>
    ELSE LET r == BackendCall(rt, nid, 0, cs[k])
         IN IF r[1] THEN Replay(r[2], r[3], cs, k + 1) ELSE <<>>

(* the calls sent so far are those of the applied operations in plan       *)
(* order, followed after an error by a beginning of the calls of the        *)
(* operation that failed                                                    *)
CallsInPlanOrder ==
    pc \in {"planned", "done", "failed"} =>
        IF pc = "failed" /\ error = "backend error"
        THEN \E k \in 1..Len(CallsOf(Applied + 1)) :
                Symbolic(calls) = CallsUpTo(Applied) \o SubSeq(CallsOf(Applied + 1), 1, k)
        ELSE Symbolic(calls) = CallsUpTo(Applied)

(* a step that sends calls applies the first operation still to apply: all *)
(* its calls take effect, or the calls before the last one sent take        *)
(* effect, the last one fails and the invocation is over with the plan as   *)
(* it was; after an error the invocation sends nothing more                 *)
AbortingStep ==
    /\ pc = "failed" =>
          /\ runtime' = runtime
          /\ plan' # plan => (run' = run + 1 /\ calls' = <<>>)
    /\ (calls' # calls /\ calls' # <<>>) =>
          LET sent == SubSeq(calls', Len(calls) + 1, Len(calls'))
          IN /\ pc = "planned"
             /\ plan # <<>>
             /\ IsPrefix(calls, calls')
             /\ IF error' = ""
                THEN /\ plan' = Tail(plan)
                     /\ pc' = "planned"
                     /\ Replay(runtime, next_id, sent, 1) = <<runtime', next_id'>>
                ELSE /\ plan' = plan
                     /\ pc' = "failed"
                     /\ Replay(runtime, next_id, SubSeq(sent, 1, Len(sent) - 1), 1)
                           = <<runtime', next_id'>>

(* C19: a backend error aborts at once.  When a backend call of an         *)
(* operation fails, container_apply returns the error and sends no later    *)
(* call of the operation, the driver applies none of the operations that    *)
(* remain in the plan, and no call is sent to undo the operations already   *)
(* applied; the operations are applied in plan order, one at a time.        *)
C19_AbortsAtFirstError == []CallsInPlanOrder /\ [][AbortingStep]_vars

(* the second operation of a plan failed at its second call: the first     *)
(* operation's container is left running and the rest was not sent          *)
C19_Witness ==
    /\ pc = "failed"
    /\ error = "backend error"
    /\ Len(diff) = 2
    /\ Applied = 1
    /\ Len(CallsOf(2)) > 2
    /\ Len(calls) = Len(CallsOf(1)) + 2
    /\ \E id \in RuntimeIds(diff[1][1]) : runtime[id].status = "running"

(* C20: re-running is safe after a failure.  When an invocation of up was  *)
(* aborted by a failing backend call, whichever call it was, and a later    *)
(* invocation with a new controller has applied its whole plan without      *)
(* error, plan_up of a controller that lists the runtime once more is       *)
(* empty.                                                                   *)
C20_RerunAfterAbort ==
    (pc = "done" /\ ~clean) => start_containers_diff(composition, Relisted) = <<>>

(* the first invocation created a container and failed to start it: the    *)
(* second had to start it and nothing else, and nothing is left to do       *)
C20_Witness ==
    /\ pc = "done"
    /\ run = 2
    /\ ~clean
    /\ Len(diff) = 1
    /\ diff[1][2] = "Start"
    /\ \E id \in RuntimeIds(diff[1][1]) :
          /\ id > Len(NameOrder)
          /\ runtime[id].status = "running"
    /\ start_containers_diff(composition, Relisted) = <<>>

----------------------------------------------------------------------------
(* Orphans, the snapshot and the flags of the subcommands. *)

(* the ids the snapshot gives the containers that find_orphans returned *)
OrphanIds == {containers[orphans[i]].id : i \in DOMAIN orphans}

(* C22: without --remove-orphans the orphans are left untouched: no        *)
(* start_container, stop_container or remove_container call of the run is   *)
(* made against a container whose name find_orphans returned.               *)
C22_OrphansUntouched ==
    ~opt.remove_orphans =>
        \A k \in DOMAIN calls :
            calls[k].call \in {"start_container", "stop_container", "remove_container"}
                => calls[k].name \notin OrphanIds

(* the planner of a subcommand *)
PlannerOf(cmd, comp, snapshot) ==
    CASE cmd = "up" -> start_containers_diff(comp, snapshot)
      [] cmd = "down" -> remove_containers_diff(comp, snapshot)
      [] cmd = "stop" -> stop_containers_diff(comp, snapshot)
      [] OTHER -> <<>>

(* the controller exists and its planner has returned the diff *)
HasPlanned == pc \in {"planned", "done"} /\ opt.cmd # "build"

(* C21: the snapshot is never refreshed: once Controller::init has built   *)
(* the controller, no planner call and no apply call changes its            *)
(* containers or its composition (the project name is fixed), so the        *)
(* planner called again on the controller, whatever has been applied since, *)
(* returns the sequence it returned before.                                 *)
C21_SnapshotNeverRefreshed ==
    /\ [](HasPlanned => PlannerOf(opt.cmd, composition, containers) = diff)
    /\ [][pc # "start" => containers' = containers /\ composition' = composition]_vars

(* a plan was applied that changed the runtime, and the snapshot still is  *)
(* what init listed, not what the runtime holds now                         *)
C21_Witness ==
    /\ pc = "done"
    /\ opt.cmd # "build"
    /\ calls # <<>>
    /\ containers # Relisted
    /\ PlannerOf(opt.cmd, composition, containers) = diff
    /\ PlannerOf(opt.cmd, composition, Relisted) # diff

(* the calls of a Remove of each of the names, in their order *)
RECURSIVE RemoveCalls(_)
RemoveCalls(names) ==
    IF names = <<>> THEN <<>> ELSE StopAndRemove(Head(names)) \o RemoveCalls(Tail(names))

(* check_orphans has returned Ok *)
OrphansChecked ==
    /\ opt.cmd # "build"
    /\ pc \in {"checked", "pulled", "built", "planned", "done"}

(* C23: with --remove-orphans every name find_orphans returned is made a   *)
(* Remove that the applier of the run applies before the plan of the       *)
(* subcommand: stop_container if the snapshot has the orphan Running, then  *)
(* remove_container, for each orphan in the order of find_orphans; when     *)
(* check_orphans has returned, no orphan is left in the runtime.            *)
C23_OrphansRemoved ==
    opt.remove_orphans =>
        /\ pc = "orphans" => IsPrefix(calls, RemoveCalls(orphans))
        /\ pc = "checked" => calls = RemoveCalls(orphans)
        /\ OrphansChecked =>
              /\ IsPrefix(RemoveCalls(orphans), calls)
              /\ OrphanIds \cap DOMAIN runtime = {}

(* a run with --remove-orphans stopped and removed a Running orphan and   *)
(* went on to its own plan                                                  *)
C23_Witness ==
    /\ opt.remove_orphans
    /\ pc = "done"
    /\ Len(orphans) = 1
    /\ containers[orphans[1]].status = "Running"
    /\ Len(calls) = 2
    /\ calls[1].call = "stop_container"
    /\ calls[2].call = "remove_container"
    /\ calls[2].name = containers[orphans[1]].id
    /\ OrphanIds \cap DOMAIN runtime = {}

----------------------------------------------------------------------------
(* Controller::init and the images (RunSpec, ImageSpec). *)

(* list_containers(vec![(LABEL_PROJECT, &project_name)]) *)
ListCall ==
    [call |-> "list_containers", labels |-> << <<LABEL_PROJECT, ProjectName>> >>]

(* C24: Controller::init makes one backend call, list_containers with the  *)
(* filter io.podman.compose.project = project_name, and the controller it   *)
(* returns holds the result as its snapshot; when the call fails, init      *)
(* returns the error, there is no controller, and no other backend call is  *)
(* made.  No later step of the run lists the containers again.              *)
C24_InitListsOnce ==
    /\ pc # "start" =>
          /\ requests # <<>>
          /\ requests[1] = ListCall
          /\ \A k \in DOMAIN requests : k > 1 => requests[k].call # "list_containers"
    /\ pc = "ready" =>
          /\ requests = <<ListCall>>
          /\ calls = <<>>
          /\ error = ""
          /\ containers = Relisted
    /\ pc = "init_failed" =>
          /\ requests = <<ListCall>>
          /\ calls = <<>>
          /\ error = "backend error"
          /\ containers = EmptyMap
          /\ orphans = <<>>
          /\ diff = <<>>
          /\ plan = <<>>

(* init has listed a runtime that holds a container of the project *)
C24_Witness ==
    /\ pc = "ready"
    /\ requests = <<ListCall>>
    /\ DOMAIN containers # {}
    /\ containers = Relisted

(* the calls of the name in a sequence of calls *)
CallsNamed(cs, name) == SelectSeq(cs, LAMBDA c : c.call = name)

(* the images the runtime holds before call k of cs, from the store before *)
(* the first and the pull_image calls made since                            *)
StoreBefore(store, cs, k) ==
    store \cup {cs[j].name : j \in {i \in 1..(k - 1) : cs[i].call = "pull_image"}}

(* cs is what pull_images issues on the specs with the policy, from the    *)
(* store, when it returns failure: get_image for the specs in their order,  *)
(* pull_image of the spec directly after its get_image exactly when the     *)
(* policy is Always, or is IfNotPresent and the image was absent; after a   *)
(* failed call nothing, without one every spec.                             *)
PulledAsStated(cs, specs, store, pull_policy, failure) ==
    LET gets == CallsNamed(cs, "get_image")
    IN /\ Len(gets) <= Len(specs)
       /\ \A i \in DOMAIN gets : gets[i].name = specs[i].name
       /\ failure = "" => Len(gets) = Len(specs)
       /\ failure # "" => cs # <<>>
       /\ \A k \in DOMAIN cs :
             /\ cs[k].call \in {"get_image", "pull_image"}
             /\ cs[k].call = "pull_image" =>
                   k > 1 /\ cs[k - 1] = [call |-> "get_image", name |-> cs[k].name]
             /\ (cs[k].call = "get_image" /\ ~(failure # "" /\ k = Len(cs))) =>
                   ((k < Len(cs) /\ cs[k + 1].call = "pull_image")
                      <=> \/ pull_policy = "Always"
                          \/ /\ pull_policy = "IfNotPresent"
                             /\ cs[k].name \notin StoreBefore(store, cs, k))

(* C25: pull_images visits the declared pull specs in order and calls      *)
(* get_image for each; it calls pull_image for a spec exactly when the      *)
(* policy is Always, or the policy is IfNotPresent and get_image returned   *)
(* absent; an error of get_image or pull_image ends the loop and is         *)
(* returned, and no call is made for the specs after it.                    *)
C25_PullImages ==
    [][pc = "ready" /\ pc' # "ready" =>
          /\ PulledAsStated(SubSeq(requests', Len(requests) + 1, Len(requests')),
                            image_specs.pull_images, images, policy, error')
          /\ (pc' = "failed") = (error' # "")]_vars

(* IfNotPresent found nginx and did not pull it, found redis absent and    *)
(* pulled it                                                                *)
C25_Witness ==
    /\ pc = "pulled"
    /\ policy = "IfNotPresent"
    /\ requests = <<ListCall, [call |-> "get_image", name |-> ImageName],
                    [call |-> "get_image", name |-> "redis"],
                    [call |-> "pull_image", name |-> "redis"]>>
    /\ images = {ImageName, "redis"}

(* C26: every remove_container call, of a Remove and of a Recreate, is     *)
(* sent with remove_volumes = false, whether down was given --volumes or    *)
(* not.                                                                     *)
C26_VolumesKept ==
    \A k \in DOMAIN calls :
        calls[k].call = "remove_container" => calls[k].remove_volumes = FALSE

(* down --volumes removed the declared container, and kept its volumes *)
C26_Witness ==
    /\ opt.cmd = "down"
    /\ opt.volumes
    /\ pc = "done"
    /\ Len(diff) = 1
    /\ diff[1][2] = "Remove"
    /\ calls # <<>>
    /\ calls[Len(calls)] = [call |-> "remove_container",
                            name |-> containers[diff[1][1]].id,
                            remove_volumes |-> FALSE]

(* the names of the calls, in their order *)
NamesOf(cs) == [k \in DOMAIN cs |-> cs[k].name]

(* pull_images has visited every pull spec, and build_images, told to      *)
(* build always, every build spec, and neither returned an error            *)
ImagesDone ==
    /\ NamesOf(CallsNamed(requests, "get_image")) = NamesOf(image_specs.pull_images)
    /\ opt.build =>
          NamesOf(CallsNamed(requests, "build_image")) = NamesOf(image_specs.build_images)
    /\ \A k \in DOMAIN requests :
          requests[k].call = "pull_image" =>
              requests[k - 1] = [call |-> "get_image", name |-> requests[k].name]

(* the calls of the Removes check_orphans had applied *)
OrphanPassCalls == IF opt.remove_orphans THEN RemoveCalls(orphans) ELSE <<>>

(* C27: in a run of up the images are pulled, then built, then the plan is *)
(* computed and applied: no call of pull_images follows a build_image of    *)
(* the run; while the images are pulled and built, and after an error of    *)
(* either, start_containers_diff has not been called and no call of an      *)
(* operation of its plan has been made; when the plan exists, every pull    *)
(* spec has been visited and, with --build, every build spec built.         *)
C27_ImagesBeforePlan ==
    opt.cmd = "up" =>
        /\ \A j, k \in DOMAIN requests :
              (j < k /\ requests[j].call = "build_image")
                  => requests[k].call = "build_image"
        /\ (pc \in {"checked", "pulled", "built"} \/ (pc = "failed" /\ plan = <<>>)) =>
              /\ diff = <<>>
              /\ calls = OrphanPassCalls
        /\ (pc \in {"planned", "done"} \/ diff # <<>>) => ImagesDone

(* up --build built the image of the declared service, then created and    *)
(* started its container                                                    *)
C27_Witness ==
    /\ opt.cmd = "up"
    /\ opt.build
    /\ pc = "done"
    /\ requests = <<ListCall, [call |-> "build_image", name |-> ImageName,
                               pull_policy |-> "IfNotPresent"]>>
    /\ Len(calls) = 2
    /\ calls[1].call = "create_container"
    /\ calls[2].call = "start_container"

----------------------------------------------------------------------------
(* stop, then down. *)

(* remove_containers_diff of a controller that init builds now *)
DownAfter == remove_containers_diff(composition, Relisted)

(* C28: when a run of stop has applied every Stop of its plan and the      *)
(* runtime is observed again, remove_containers_diff returns one Remove for *)
(* each declared spec whose container exists, in the order of the           *)
(* composition, and no Stop; applying each of them makes one backend call,  *)
(* remove_container(id, false), and no stop_container.                      *)
C28_DownAfterStop ==
    (opt.cmd = "stop" /\ pc = "done") =>
        /\ LET present == SelectSeq(composition,
                                    LAMBDA spec : spec.name \in DOMAIN Relisted)
           IN DownAfter = [i \in DOMAIN present |-> <<present[i].name, "Remove">>]
        /\ \A i \in DOMAIN DownAfter :
              OperationCalls(composition, Relisted, DownAfter[i][1], DownAfter[i][2],
                             timeout)
                  = <<"", << [call |-> "remove_container",
                              name |-> Relisted[DownAfter[i][1]].id,
                              remove_volumes |-> FALSE] >> >>

(* stop stopped the Running declared container, and down has it to remove *)
C28_Witness ==
    /\ opt.cmd = "stop"
    /\ pc = "done"
    /\ Len(diff) = 1
    /\ diff[1][2] = "Stop"
    /\ calls = << [call |-> "stop_container", name |-> containers[diff[1][1]].id,
                   timeout |-> timeout] >>
    /\ Relisted[diff[1][1]].status = "Exited"
    /\ DownAfter = << <<diff[1][1], "Remove">> >>

----------------------------------------------------------------------------
(* The digest of a spec (DigestSpec). *)

(* the io.podman.compose.hash label container_create gave the container *)
CreatedHash == Get(calls[1].spec.labels, LABEL_HASH)

(* the entries the map of a spec holds, whatever their order *)
EntrySet(i) == {inserts[i].stored[k] : k \in DOMAIN inserts[i].stored}

(* the two specs are equal on name, service_name, image_name and labels *)
EqualOnFields ==
    /\ composition[1].name = composition[2].name
    /\ composition[1].service_name = composition[2].service_name
    /\ composition[1].image_name = composition[2].image_name
    /\ EntrySet(1) = EntrySet(2)

(* the hex digest of the bytes a spec writes when its labels are written   *)
(* as its map holds them                                                    *)
StoredDigest(i) ==
    "blake3(" \o HashStr(composition[i].name) \o HashStr(composition[i].service_name)
              \o HashStr(composition[i].image_name)
              \o HashStored(inserts[i].stored) \o ")"

(* C29: the digest is a function of name, service_name, image_name and     *)
(* the labels map only: the digest either controller takes of its spec is   *)
(* the digest of the bytes of these fields, the labels written as the map   *)
(* holds them; and when the spec of the planning controller and the spec of *)
(* the creating controller are equal on these fields, in whatever order and *)
(* however often the entries of each were inserted, the two digests are     *)
(* equal, the hex digest container_create wrote into the hash label is the  *)
(* digest start_containers_diff takes of its spec, and the plan has nothing *)
(* to do for the Running container.                                         *)
C29_DigestOfFields ==
    /\ \A i \in 1..2 : SpecHashHex(composition[i]) = StoredDigest(i)
    /\ (pc = "hashed" /\ EqualOnFields) =>
          /\ StoredDigest(1) = StoredDigest(2)
          /\ CreatedHash = <<StoredDigest(2)>>
          /\ Get(containers[composition[1].name].labels, LABEL_HASH)
                = <<StoredDigest(1)>>
          /\ diff = <<>>

(* the planning controller inserted env, then tier; the creating           *)
(* controller inserted tier, then env: the specs are equal on the four      *)
(* fields and the digests agree                                             *)
C29_Witness ==
    /\ pc = "hashed"
    /\ Len(inserts[1].inserted) = 2
    /\ Len(inserts[2].inserted) = 2
    /\ inserts[1].inserted[1][1] = "env"
    /\ inserts[1].inserted[2][1] = "tier"
    /\ inserts[2].inserted[1][1] = "tier"
    /\ inserts[2].inserted[2][1] = "env"
    /\ EqualOnFields
    /\ CreatedHash = <<StoredDigest(1)>>
    /\ diff = <<>>

----------------------------------------------------------------------------
(* The images built (RunSpec). *)

(* the build_image requests of the run that name the image *)
BuildRequestsOf(name) ==
    {k \in DOMAIN requests : requests[k].call = "build_image" /\ requests[k].name = name}

(* the declared build specs that name the image *)
BuildSpecsOf(name) ==
    {i \in DOMAIN image_specs.build_images : image_specs.build_images[i].name = name}

(* every build_image request of the run was sent with the pull policy *)
BuiltWith(pull_policy) ==
    \A k \in DOMAIN requests :
        requests[k].call = "build_image" => requests[k].pull_policy = pull_policy

(* C30: build_images called with BuildPolicy::Always calls build_image     *)
(* once for every declared build spec: when it has returned without an      *)
(* error, the run has made as many build_image calls for an image as build  *)
(* specs declare it.  The subcommand build calls it with Always, and with   *)
(* the pull policy Always when --pull is given and IfNotPresent when it is  *)
(* not; up --build calls it with Always and IfNotPresent.                   *)
C30_BuildsEverySpec ==
    /\ (opt.cmd = "build" /\ pc = "done") =>
          /\ \A name \in BuiltNames \cup {ImageName} :
                Cardinality(BuildRequestsOf(name)) = Cardinality(BuildSpecsOf(name))
          /\ BuiltWith(IF opt.pull THEN "Always" ELSE "IfNotPresent")
    /\ (opt.cmd = "up" /\ opt.build /\ pc \in {"built", "planned", "done"}) =>
          /\ \A name \in BuiltNames \cup {ImageName} :
                Cardinality(BuildRequestsOf(name)) = Cardinality(BuildSpecsOf(name))
          /\ BuiltWith("IfNotPresent")

(* build --pull built the two declared build specs, of different images,   *)
(* each once and with the pull policy Always                                *)
C30_Witness ==
    /\ opt.cmd = "build"
    /\ opt.pull
    /\ pc = "done"
    /\ Len(image_specs.build_images) = 2
    /\ image_specs.build_images[1] # image_specs.build_images[2]
    /\ Len(requests) = 3
    /\ \A k \in 2..3 :
          /\ requests[k].call = "build_image"
          /\ requests[k].pull_policy = "Always"
    /\ requests[2].name # requests[3].name

----------------------------------------------------------------------------
(* The orphan pass and the plan of one run (RunSpec). *)

(* C31: in a run of up, down or stop with --remove-orphans no backend call *)
(* is made against a container that an earlier remove_container call of the *)
(* run removed: the Removes of the orphans and the operations of the plan   *)
(* never name the same container.                                           *)
C31_NoCallOnRemoved ==
    opt.remove_orphans =>
        \A j, k \in DOMAIN calls :
            (j < k /\ calls[j].call = "remove_container"
                   /\ calls[k].call \in {"start_container", "stop_container",
                                         "remove_container"})
                => calls[k].name # calls[j].name

(* container_apply finds what the operation needs: the spec of the name    *)
(* for Create and Recreate, the container of the name in the snapshot for   *)
(* every operation but Create                                               *)
Applicable(comp, snapshot, name, operation) ==
    /\ operation \in {"Create", "Recreate"} => \E i \in DOMAIN comp : comp[i].name = name
    /\ operation \in {"Recreate", "Start", "Stop", "Remove"} => name \in DOMAIN snapshot
    /\ OperationCalls(comp, snapshot, name, operation, TimeoutDefault)[1] = ""

(* C32: every (name, operation) the planner of up, stop or down returns    *)
(* can be applied on the controller that returned it without a Planning     *)
(* error: a Create or Recreate names a declared spec, and a Recreate,       *)
(* Start, Stop or Remove a key of the snapshot; no run ends with a Planning *)
(* error.                                                                   *)
C32_PlansApplicable ==
    /\ HasPlanned =>
          \A i \in DOMAIN diff : Applicable(composition, containers, diff[i][1], diff[i][2])
    /\ error \in {"", "backend error"}

(* up planned a Recreate, and its run applied it *)
C32_Witness ==
    /\ opt.cmd = "up"
    /\ pc = "done"
    /\ Len(diff) = 1
    /\ diff[1][2] = "Recreate"
    /\ Applicable(composition, containers, diff[1][1], diff[1][2])
    /\ calls # <<>>

----------------------------------------------------------------------------
(* stop and down: the scaled-down containers and convergence (RunSpec). *)

(* the containers of the snapshot whose service is declared and whose name *)
(* is not                                                                   *)
ScaledDownNames ==
    {name \in DOMAIN containers : ServiceIsDeclared(name) /\ name \notin DeclaredNames}

(* C33: the plans of stop and down name declared containers only, so a     *)
(* scaled-down container (its service label declared, its name not) is not  *)
(* an orphan, is named by no operation and by no backend call of a run of   *)
(* stop or down, with or without --remove-orphans, and is in the project    *)
(* with the status it had when the run is over.                             *)
C33_ScaledDownKept ==
    opt.cmd \in {"stop", "down"} =>
        /\ \A i \in DOMAIN diff : diff[i][1] \in DeclaredNames
        /\ \A name \in ScaledDownNames :
              /\ \A i \in DOMAIN orphans : orphans[i] # name
              /\ \A k \in DOMAIN calls : calls[k].name # containers[name].id
              /\ name \in DOMAIN Relisted
              /\ Relisted[name] = containers[name]

(* down --remove-orphans has come to its end and the scaled-down container *)
(* is still there                                                           *)
C33_Witness ==
    /\ opt.cmd = "down"
    /\ opt.remove_orphans
    /\ pc = "done"
    /\ composition # <<>>
    /\ ScaledDownNames # {}
    /\ \A name \in ScaledDownNames : name \in DOMAIN Relisted

(* C34: stop and down converge in one step: when every operation of the    *)
(* plan of stop (of down) has been applied without an error and a new       *)
(* controller observes the runtime, its plan of stop (of down) is empty.    *)
C34_StopDownConverge ==
    (opt.cmd \in {"stop", "down"} /\ pc = "done") =>
        PlannerOf(opt.cmd, composition, Relisted) = <<>>

(* down stopped and removed the Running declared container, and a second   *)
(* down has nothing to do                                                   *)
C34_Witness ==
    /\ opt.cmd = "down"
    /\ pc = "done"
    /\ Len(diff) = 1
    /\ Len(calls) = 2
    /\ calls[1].call = "stop_container"
    /\ calls[2].call = "remove_container"
    /\ diff[1][1] \notin DOMAIN Relisted
    /\ remove_containers_diff(composition, Relisted) = <<>>

----------------------------------------------------------------------------
(* The compose file, its composition and the plan made of it               *)
(* (FrontendSpec).                                                          *)

(* the services the file declares with replicas: 0 *)
ZeroReplicaServices ==
    {s \in DOMAIN file_services : file_services[s].replicas = <<0>>}

(* the containers of the snapshot whose service label names such a service *)
ZeroReplicaNames ==
    {name \in DOMAIN containers :
        \E s \in ZeroReplicaServices : ServiceLabel(name) = <<s>>}

(* C35: the declared services are those of the declared ContainerSpecs,    *)
(* not those of the compose file: a service with replicas = 0 has no        *)
(* ContainerSpec and is no declared service, so every container of the      *)
(* snapshot that carries its service label is returned by find_orphans and  *)
(* gets no Remove in the plan of up.                                        *)
C35_ZeroReplicasOrphaned ==
    pc # "parse" =>
        /\ \A s \in ZeroReplicaServices :
              \A i \in DOMAIN composition : composition[i].service_name # s
        /\ pc \in {"checked", "pulled", "built", "failed", "planned"} =>
              \A name \in ZeroReplicaNames : \E i \in DOMAIN orphans : orphans[i] = name
        /\ pc = "planned" =>
              \A name \in ZeroReplicaNames :
                  \A i \in DOMAIN diff : diff[i] # <<name, "Remove">>

(* db is scaled to no replica while web is declared: the container of db   *)
(* is an orphan, and the plan of up leaves it alone                         *)
C35_Witness ==
    /\ pc = "planned"
    /\ ZeroReplicaServices = {"db"}
    /\ {composition[i].service_name : i \in DOMAIN composition} = {"web"}
    /\ ZeroReplicaNames = {"p_db_0"}
    /\ orphans = <<"p_db_0">>
    /\ diff # <<>>
    /\ \A i \in DOMAIN diff : diff[i][1] # "p_db_0"

(* the replica indices the file asks for of a service: 0 alone when        *)
(* replicas is not given                                                    *)
ReplicaIndices(s) ==
    IF file_services[s].replicas = <<>> THEN {0}
    ELSE 0..(file_services[s].replicas[1] - 1)

(* the positions in the composition of the spec of a replica *)
PositionsOf(s, index) ==
    {i \in DOMAIN composition :
        composition[i].name = ProjectName \o "_" \o s \o "_" \o ToString(index)}

(* C37: for each service of the compose file the composition holds one     *)
(* ContainerSpec per replica index 0..replicas-1, one when replicas is not  *)
(* given, named {project}_{service}_{index}, with the name of the service   *)
(* as service_name and the image name of the service; it holds no other     *)
(* spec, and its names are pairwise distinct.                               *)
C37_SpecPerReplica ==
    pc # "parse" =>
        /\ \A s \in DOMAIN file_services : \A index \in ReplicaIndices(s) :
              /\ Cardinality(PositionsOf(s, index)) = 1
              /\ \A i \in PositionsOf(s, index) :
                    /\ composition[i].service_name = s
                    /\ composition[i].image_name =
                          IF file_services[s].image # <<>> THEN file_services[s].image[1]
                          ELSE ProjectName \o "_" \o s
                    /\ composition[i].labels = EmptyMap
        /\ Len(composition)
              = Cardinality({<<s, index>> \in (DOMAIN file_services) \X (0..MaxReplicas) :
                                index \in ReplicaIndices(s)})
        /\ \A i, j \in DOMAIN composition :
              i # j => composition[i].name # composition[j].name

(* db without replicas and web with two: three specs, db first *)
C37_Witness ==
    /\ pc = "start"
    /\ DOMAIN file_services = {"db", "web"}
    /\ file_services["db"].replicas = <<>>
    /\ file_services["web"].replicas = <<2>>
    /\ file_services["web"].image = <<>>
    /\ [i \in DOMAIN composition |-> composition[i].name]
          = <<"p_db_0", "p_web_0", "p_web_1">>
    /\ composition[2].service_name = "web"
    /\ composition[2].image_name = "p_web"
    /\ composition[3].image_name = "p_web"

----------------------------------------------------------------------------
(* The listing of the backend (ListSpec). *)

(* the filter of the list_containers call that was made *)
Requested == requests[Len(requests)].labels

(* the container of the runtime carries every requested label with the     *)
(* requested value                                                          *)
CarriesRequested(id) ==
    \A i \in DOMAIN Requested :
        /\ Requested[i][1] \in DOMAIN runtime[id].labels
        /\ runtime[id].labels[Requested[i][1]] = Requested[i][2]

(* C36: list_containers returns a container of the runtime if and only if  *)
(* every requested (label, value) pair is on it with that value, so without *)
(* a filter every container; the map it returns is keyed by the name of the *)
(* container, and the entry of a name is the container of that name with    *)
(* its runtime id, its labels and its status.                               *)
C36_ListByLabels ==
    pc = "listed" =>
        /\ DOMAIN containers = {runtime[id].names : id \in {i \in DOMAIN runtime :
                                                              CarriesRequested(i)}}
        /\ \A id \in DOMAIN runtime :
              CarriesRequested(id) =>
                  /\ containers[runtime[id].names].id = id
                  /\ containers[runtime[id].names].name = runtime[id].names
                  /\ containers[runtime[id].names].labels = runtime[id].labels
        /\ Requested = <<>> => Cardinality(DOMAIN containers) = Cardinality(DOMAIN runtime)

(* of two containers of the project the filter on project and service web  *)
(* returned the one of web, under its name                                  *)
C36_Witness ==
    /\ pc = "listed"
    /\ Requested = << <<LABEL_PROJECT, ProjectName>>, <<LABEL_SERVICE, "web">> >>
    /\ Cardinality(DOMAIN runtime) = 2
    /\ DOMAIN containers = {"p_web_0"}
    /\ containers["p_web_0"].id = InitialId("p_web_0")
    /\ \E id \in DOMAIN runtime :
          /\ runtime[id].names = "p_db_0"
          /\ Get(runtime[id].labels, LABEL_SERVICE) = <<"db">>

====
